---- MODULE Spec2Model ----
(***************************************************************************)
(* CortexAI: the Live-or-Cache gate over the snapshot store (tally_mcp.py, *)
(* snapshot.py) and the tool-orchestration loop with its per-user          *)
(* conversation history (orchestrator.py, telegram_bot.py).                *)
(*                                                                         *)
(* Texts are sequences of string tokens, so that prefixing a banner,       *)
(* searching for a marker and parsing a directive are real operations.     *)
(*                                                                         *)
(* Specifications: SpecGate (the gate over the store), SpecGatePair (two   *)
(* gate calls in a row), SpecTransport (the gate over _tally_request),     *)
(* SpecAge (snapshot ages), SpecStore (save step by step next to a         *)
(* reader), SpecFallback (the gate's except branch next to a save),        *)
(* SpecLoop (the orchestration loop), SpecTools (the loop with the MCP     *)
(* session), SpecTerminate (the loop with every awaited call ending),      *)
(* SpecOverlap (overlapping queries and /clear), SpecClear (/clear between *)
(* queries), SpecKeys (the cache keys of the tools) and, for the pure      *)
(* functions, SpecVoucher, SpecParse, SpecClean and SpecDirective.         *)
(***************************************************************************)
EXTENDS Integers, Sequences, FiniteSets, TLC

VARIABLES
    snapshots,             \* SNAPSHOT_DIR: cache key -> content of <key>.json
    tally_is_alive,        \* _tally_is_alive: "None", "True" or "False"
    now,                   \* datetime.now(), in seconds
    gate,                  \* the last _live_or_cache call and its outcome
    conversation_history,  \* user id -> list of turns, or no entry
    calls,                 \* the handle_query coroutines, one per slot
    nq,                    \* number of queries submitted so far
    save_call,             \* a snapshot.save call of another process, step by step
    snap_call,             \* the last snapshot.load / age_str call and its outcome
    prev,                  \* the _live_or_cache call before the last one
    tally_call,            \* the last _tally_request call and its outcome
    pure_call,             \* a call of a parser, the sanitizer, the resolver or a tool
    fb_call                \* the except branch of a _live_or_cache call, step by step

vars == <<snapshots, tally_is_alive, now, gate, conversation_history, calls, nq,
          save_call, snap_call, prev, tally_call, pure_call, fb_call>>

gateVars == <<snapshots, tally_is_alive, now, gate>>
loopVars == <<conversation_history, calls, nq>>
auxVars == <<save_call, snap_call, prev, tally_call, pure_call, fb_call>>

(***************************************************************************)
(* Bounds of the model.                                                    *)
(***************************************************************************)
MaxTicks == 2          \* the clock advances at most this many times
TickSeconds == 2700    \* one clock step: 45 minutes
MaxQueries == 2        \* queries submitted in one run
NSlots == 2            \* handle_query coroutines that can exist at once

(***************************************************************************)
(* Snapshot store (snapshot.py)                                            *)
(***************************************************************************)

\* A cache key is the path it names below SNAPSHOT_DIR, split at the
\* separators: f"{key}.json" joined to the directory.
KeyTrialBalance == <<"trial_balance">>
KeyPnl == <<"pnl">>
KeySearchSlash == <<"search_a", "c">>      \* search_ledger("A/c")
Keys == {KeyTrialBalance, KeyPnl, KeySearchSlash}

\* Only SNAPSHOT_DIR itself is created (os.makedirs at import): a file can
\* be created by open(path, "w") only directly inside it.
ParentDirExists(key) == Len(key) = 1

Texts == {<<"rows:", "A">>, <<"rows:", "B">>}

NoFile == [kind |-> "nofile"]
Garbage == [kind |-> "garbage"]            \* not a JSON document (e.g. truncated)
Undecodable == [kind |-> "undecodable"]    \* bytes that are not UTF-8
JsonFile(obj) == [kind |-> "json", json |-> obj]

\* A JSON object: the keys it has and their values.
JsonObj(ks, d, s, h) == [keys |-> ks, data |-> d, saved_at |-> s, timestamp_human |-> h]
EmptyObj == JsonObj({}, <<>>, <<>>, <<>>)

\* datetime.isoformat() / datetime.fromisoformat()
IsoFormat(t) == <<"iso", ToString(t)>>
\* Clock readings around the thresholds of age_str: 1 minute, 1 hour, 90
\* minutes, 1 day, 2 days.
AgeInstants == {0, 59, 60, 3599, 3600, 5400, 86399, 86400, 172799, 172800}
Instants == {k * TickSeconds : k \in 0..(MaxTicks + 1)} \cup AgeInstants
IsoSeconds == [s \in {IsoFormat(t) : t \in Instants} |->
                 CHOOSE t \in Instants : IsoFormat(t) = s]
FromIsoFormat(s) == IsoSeconds[s]
StrfTime(t) == <<"human", ToString(t \div 60)>>

SnapshotRecord(data, t) ==
    JsonObj({"data", "saved_at", "timestamp_human"}, data, IsoFormat(t), StrfTime(t))

None == [py |-> "None"]
Returned(v) == [exc |-> "", val |-> v]
Raised(e) == [exc |-> e, val |-> None]

\* Mutant: the write is lost.
saveKeepsFile(key, data) == snapshots

\* save(key, data): open(path, "w") then json.dump of the whole record.
SaveRaises(key) == ~ParentDirExists(key)
save(key, data) == [snapshots EXCEPT ![key] = JsonFile(SnapshotRecord(data, now))]

\* load(key)
load(key) ==
    LET f == snapshots[key] IN
    IF f.kind = "nofile" THEN Returned(None)
    ELSE IF f.kind = "garbage" THEN Returned(None)
    ELSE IF f.kind = "undecodable" THEN Raised("UnicodeDecodeError")
    ELSE Returned(f.json)

\* Python truth value of what load returned
Truthy(v) == v # None /\ v.keys # {}

\* int(diff.total_seconds() / 60): truncation towards zero
Minutes(saved, t) ==
    IF t >= saved THEN (t - saved) \div 60 ELSE 0 - ((saved - t) \div 60)

\* Mutant: 24 hours still count as hours.
AgeLabelHoursInclusive(minutes) ==
    IF minutes < 1 THEN <<"just now">>
    ELSE IF minutes < 60 THEN <<ToString(minutes), " min ago">>
    ELSE IF minutes \div 60 <= 24 THEN <<ToString(minutes \div 60), "h ago">>
    ELSE <<ToString((minutes \div 60) \div 24), " days ago">>

AgeLabel(minutes) ==
    IF minutes < 1 THEN <<"just now">>
    ELSE IF minutes < 60 THEN <<ToString(minutes), " min ago">>
    ELSE IF minutes \div 60 < 24 THEN <<ToString(minutes \div 60), "h ago">>
    ELSE <<ToString((minutes \div 60) \div 24), " days ago">>

\* age_str(key)
age_str(key) ==
    LET snap == load(key) IN
    IF snap.exc # "" THEN snap
    ELSE IF ~Truthy(snap.val) THEN Returned(<<"no cached data">>)
    ELSE IF "saved_at" \notin snap.val.keys THEN Raised("KeyError")
    ELSE Returned(AgeLabel(Minutes(FromIsoFormat(snap.val.saved_at), now)))

(***************************************************************************)
(* Live-or-Cache gate (tally_mcp.py)                                       *)
(***************************************************************************)

\* What fetch_fn returns: payloads as token sequences.
ErrorEnvelope == <<"<ENVELOPE>", "<ERROR>", "Tally request timed out", "</ERROR>", "</ENVELOPE>">>
Truncated == <<"<ENVELOPE>", "<LEDGER">>
PayloadA == <<"<ENVELOPE>", "A", "</ENVELOPE>">>
PayloadB == <<"<ENVELOPE>", "B", "</ENVELOPE>">>
Payloads == {ErrorEnvelope, Truncated, PayloadA, PayloadB}

FetchOutcomes == {Raised("ConnectionError")} \cup {Returned(p) : p \in Payloads}

\* "<ERROR>" in raw
HasErrorMarker(raw) == \E i \in 1..Len(raw) : raw[i] = "<ERROR>"

\* format_fn(raw): parse the payload (ParseError when it is not well formed)
\* and format the rows.
WellFormed(raw) ==
    Len(raw) >= 2 /\ raw[1] = "<ENVELOPE>" /\ raw[Len(raw)] = "</ENVELOPE>"
format_fn(raw) ==
    IF WellFormed(raw)
    THEN Returned(<<"rows:">> \o SubSeq(raw, 2, Len(raw) - 1))
    ELSE Raised("ParseError")

Banner(age) ==
    <<"Tally is offline. Showing cached data from ">> \o age \o <<":\n", "-----\n">>
NoCacheMessage == <<"Tally is offline and no cached data available for this query.">>

\* Mutant: the cached data is returned as it is, with no banner.
CacheFallbackNoBanner(key) ==
    LET cached == load(key) IN
    IF cached.exc # "" THEN cached
    ELSE IF Truthy(cached.val)
    THEN IF "data" \notin cached.val.keys THEN Raised("KeyError")
         ELSE Returned(cached.val.data)
    ELSE Returned(NoCacheMessage)

\* The except branch of _live_or_cache (lines 59-72), run in the current store.
CacheFallback(key) ==
    LET cached == load(key) IN
    IF cached.exc # "" THEN cached
    ELSE IF Truthy(cached.val)
    THEN LET age == age_str(key) IN
         IF age.exc # "" THEN age
         ELSE IF "data" \notin cached.val.keys THEN Raised("KeyError")
         ELSE Returned(Banner(age.val) \o cached.val.data)
    ELSE Returned(NoCacheMessage)

\* Mutant: the fetch is skipped while the backend is marked unreachable.
LiveSucceedsIfAlive(key, fetched) ==
    /\ tally_is_alive # "False"
    /\ fetched.exc = ""
    /\ ~HasErrorMarker(fetched.val)
    /\ format_fn(fetched.val).exc = ""
    /\ ~SaveRaises(key)

\* Mutant: a payload with the error marker is formatted and saved.
LiveSucceedsDespiteMarker(key, fetched) ==
    /\ fetched.exc = ""
    /\ format_fn(fetched.val).exc = ""
    /\ ~SaveRaises(key)

\* The try branch succeeds: fetch returned, no marker, format returned, save wrote.
LiveSucceeds(key, fetched) ==
    /\ fetched.exc = ""
    /\ ~HasErrorMarker(fetched.val)
    /\ format_fn(fetched.val).exc = ""
    /\ ~SaveRaises(key)

GateRecord(key, fetched, out) ==
    [key |-> key, fetched |-> fetched, before |-> snapshots[key],
     alive_before |-> tally_is_alive, at |-> now, out |-> out]

\* _live_or_cache(cache_key, fetch_fn, format_fn)
live_or_cache(key, fetched) ==
    IF LiveSucceeds(key, fetched)
    THEN LET result == format_fn(fetched.val).val IN
         /\ snapshots' = save(key, result)
         /\ tally_is_alive' = "True"
         /\ gate' = GateRecord(key, fetched, Returned(result))
    ELSE /\ tally_is_alive' = "False"
         /\ snapshots' = snapshots
         /\ gate' = GateRecord(key, fetched, CacheFallback(key))

GateCall ==
    \E key \in Keys, fetched \in FetchOutcomes :
        /\ live_or_cache(key, fetched)
        /\ UNCHANGED <<now, loopVars, auxVars>>

Tick ==
    /\ now + TickSeconds <= MaxTicks * TickSeconds
    /\ now' = now + TickSeconds
    /\ UNCHANGED <<snapshots, tally_is_alive, gate, loopVars, auxVars>>

NoGateCall == [key |-> <<>>, fetched |-> Raised("none"), before |-> NoFile,
               alive_before |-> "None", at |-> 0, out |-> Raised("none")]

NoSaveCall == [pc |-> "idle", key |-> <<>>, data |-> <<>>, before |-> NoFile,
               prior |-> <<>>, exc |-> ""]
NoSnapCall == [fn |-> "", key |-> <<>>, out |-> Raised("none"), at |-> 0,
               file |-> NoFile, saving |-> FALSE, before |-> NoFile, writing |-> <<>>]
NoTallyCall == [outcome |-> Raised("none"), ret |-> Raised("none")]

\* What the snapshot directory may hold when the process starts.
InitialFiles ==
    {NoFile, Garbage, Undecodable, JsonFile(EmptyObj)}
    \cup {JsonFile(SnapshotRecord(d, 0)) : d \in Texts}
    \cup {JsonFile(JsonObj({"data"}, d, <<>>, <<>>)) : d \in Texts}
    \cup {JsonFile(JsonObj({"saved_at"}, <<>>, IsoFormat(0), <<>>))}

(***************************************************************************)
(* Orchestration loop (orchestrator.py)                                    *)
(***************************************************************************)
Users == {"u1", "u2"}
Slots == 1..NSlots

Turn(role, content) == [role |-> role, content |-> content]

SystemPrompt == <<"You are a Tally accounting BI assistant.">>
Queries == {<<"who", "owes", "us", "money?">>, <<"show", "me", "P&L">>}

\* Texts the model endpoint can answer with.
FinalAnswer == <<"Cash", "balance", "is", "300">>
CallSearch == <<"Let", "me", "check.", "TOOL_CALL:", "search_ledger", "(",
                "partial_name", "=", "\"", "cash", "\"", ")">>
LLMContents == {FinalAnswer, CallSearch}

OverloadedMessage == <<"The AI brain is currently overloaded. Please try again in a minute.">>
BudgetMessage == <<"Could not complete analysis. Please try a simpler question.">>

max_rounds == 5
stop_after_attempt == 3
HistoryCap == 20

\* Tokens matched by \w+
WordTokens == {"search_ledger", "get_trial_balance", "get_cash_flow", "partial_name",
               "date", "cash",
               "Let", "me", "Cash", "balance", "is", "300"}

\* re.search(r"TOOL_CALL:\s*(\w+)\((.*?)\)", text): the leftmost position where
\* the directive starts, its name, and the text up to the first ")".
DirectiveAt(text, i) ==
    /\ i + 2 <= Len(text)
    /\ text[i] = "TOOL_CALL:"
    /\ text[i + 1] \in WordTokens
    /\ text[i + 2] = "("
    /\ \E j \in (i + 3)..Len(text) : text[j] = ")"

FirstDirective(text) ==
    CHOOSE i \in 1..Len(text) :
        DirectiveAt(text, i) /\ \A k \in 1..(i - 1) : ~DirectiveAt(text, k)

ClosingParen(text, i) ==
    CHOOSE j \in (i + 3)..Len(text) :
        text[j] = ")" /\ \A k \in (i + 3)..(j - 1) : text[k] # ")"

\* re.finditer(r'(\w+)\s*=\s*"([^"]*)"', args_str): left to right, a later
\* match of the same name overwrites the earlier one.
\* A match starts at i: a name, "=", an opening quote and, somewhere after
\* it, a closing quote; the value is what lies between the two quotes.
ArgAt(args, i) ==
    /\ i + 3 <= Len(args)
    /\ args[i] \in WordTokens /\ args[i + 1] = "=" /\ args[i + 2] = "\""
    /\ \E j \in (i + 3)..Len(args) : args[j] = "\""
ClosingQuote(args, i) ==
    CHOOSE j \in (i + 3)..Len(args) :
        args[j] = "\"" /\ \A k \in (i + 3)..(j - 1) : args[k] # "\""

RECURSIVE ParseArgs(_, _, _)
ParseArgs(args, i, kwargs) ==
    IF i + 3 > Len(args) THEN kwargs
    ELSE IF ArgAt(args, i)
         THEN ParseArgs(args, ClosingQuote(args, i) + 1,
                        (args[i] :> SubSeq(args, i + 3, ClosingQuote(args, i) - 1)) @@ kwargs)
    ELSE ParseArgs(args, i + 1, kwargs)

NoKwargs == [a \in {} |-> <<>>]
NoTool == "None"

\* parse_tool_call(text)
parse_tool_call(text) ==
    IF ~\E i \in 1..Len(text) : DirectiveAt(text, i)
    THEN [tool_name |-> NoTool, kwargs |-> NoKwargs]
    ELSE LET i == FirstDirective(text)
             j == ClosingParen(text, i)
         IN [tool_name |-> text[i + 1],
             kwargs |-> ParseArgs(SubSeq(text, i + 3, j - 1), 1, NoKwargs)]

\* One attempt of call_llm: the transport raises, or the body is returned.
LLMBody(has_error, content) == [has_error |-> has_error, content |-> content]
LLMOutcomes ==
    {Raised("HTTPStatusError"), Returned(LLMBody(TRUE, <<>>))}
    \cup {Returned(LLMBody(FALSE, t)) : t \in LLMContents}

call_llm_attempt(outcome) ==
    IF outcome.exc # "" THEN outcome
    ELSE IF outcome.val.has_error THEN Raised("LLM Error")
    ELSE Returned(outcome.val.content)

\* What mcp_client.call_tool does: returns the tool's text or raises.
ToolText == <<"Cash", "|", "Group:", "Cash-in-Hand", "|", "Balance:", "300">>
ToolOutcomes == {Returned(ToolText), Raised("McpError")}

ToolResultTurn(tool_name, tool_result) ==
    Turn("user", <<"TOOL_RESULT for ", tool_name, ":\n">> \o tool_result)

IdleCall ==
    [pc |-> "idle", user_id |-> "", query |-> <<>>, messages |-> <<>>, round_num |-> 0,
     attempt |-> 0, llm_response |-> <<>>, tool_name |-> NoTool, kwargs |-> NoKwargs,
     ret |-> <<>>, turns0 |-> <<>>, failures |-> <<>>, model_calls |-> 0,
     tool_invocations |-> 0, tool_outcome |-> Raised("none")]

\* The turns stored for a user (none when the dict has no entry).
Stored(u) == IF u \in DOMAIN conversation_history THEN conversation_history[u] ELSE <<>>

\* Mutant: the exception text is fed back without the prefix.
ToolResultUnprefixed(outcome) ==
    IF outcome.exc # "" THEN <<outcome.exc>> ELSE outcome.val

\* Lines 266-269: the text of the round's tool result.
ToolResult(outcome) ==
    IF outcome.exc # "" THEN <<"Tool error: ", outcome.exc>> ELSE outcome.val

\* Mutant: the entry is reset on every query.
EnsureEntryResets(user_id) ==
    [u \in DOMAIN conversation_history \cup {user_id} |->
        IF u = user_id THEN <<>> ELSE Stored(u)]

\* Lines 230-231: if user_id not in conversation_history: ... = []
EnsureEntry(user_id) ==
    [u \in DOMAIN conversation_history \cup {user_id} |-> Stored(u)]

\* Mutant: everything accumulated for the query is stored, tool rounds included.
FinalTurnsAllMessages(c, llm_response) ==
    SubSeq(c.messages, 2 + Len(c.turns0), Len(c.messages))
    \o <<Turn("assistant", llm_response)>>

\* Mutant: only the answer is stored.
FinalTurnsAnswerOnly(c, llm_response) == <<Turn("assistant", llm_response)>>

\* Lines 253-258: what the final branch appends to the user's history.
FinalTurns(c, llm_response) ==
    <<Turn("user", c.query), Turn("assistant", llm_response)>>

\* Mutant: history[:20], the oldest turns are kept.
TrimKeepsOldest(h) ==
    IF Len(h) > HistoryCap THEN SubSeq(h, 1, HistoryCap) ELSE h

\* Mutant: history[-19:], one entry too few.
TrimSplitsPair(h) ==
    IF Len(h) > HistoryCap THEN SubSeq(h, Len(h) - HistoryCap + 2, Len(h)) ELSE h

\* Lines 260-261: history[-20:] when longer than 20.
Trim(h) ==
    IF Len(h) > HistoryCap THEN SubSeq(h, Len(h) - HistoryCap + 1, Len(h)) ELSE h

\* Mutant: the model's call text is not appended.
ToolRoundTurnsNoCallText(c, tool_result) ==
    <<ToolResultTurn(c.tool_name, tool_result)>>

\* Mutant: the tool result is appended before the model's call text.
ToolRoundTurnsSwapped(c, tool_result) ==
    <<ToolResultTurn(c.tool_name, tool_result), Turn("assistant", c.llm_response)>>

\* Lines 273-277: what a tool round appends to messages.
ToolRoundTurns(c, tool_result) ==
    <<Turn("assistant", c.llm_response), ToolResultTurn(c.tool_name, tool_result)>>

\* Mutant: one round too many.
AnotherRoundOffByOne(round_num) == round_num + 1 <= max_rounds

\* range(max_rounds): another round follows round_num.
AnotherRound(round_num) == round_num + 1 < max_rounds

\* Mutant: the retry gives up one attempt early.
RetriesExhaustedEarly(attempt) == attempt >= stop_after_attempt - 1

\* tenacity stop_after_attempt(3): the attempt just failed was the last one.
RetriesExhausted(attempt) == attempt >= stop_after_attempt

\* Mutant: the dispatcher hands over an update while a handler is running.
DispatcherConcurrent == \E t \in Slots : calls[t].pc = "idle"

\* The callers await one handler at a time: orchestrator.py 299-303 in its
\* input loop, and telegram_bot.py 94-97 builds the Application without
\* concurrent updates, so the next update is taken when the handler of the
\* last one has returned.
DispatcherFree == \A t \in Slots : calls[t].pc = "idle"

\* handle_query up to its first await: lines 193-242. The coroutine is
\* created in the first unused slot.
BeginQuery(s, user_id, query) ==
    /\ nq < MaxQueries
    /\ calls[s].pc = "idle"
    /\ \A t \in 1..(s - 1) : calls[t].pc # "idle"
    /\ nq' = nq + 1
    /\ conversation_history' = EnsureEntry(user_id)
    /\ calls' = [calls EXCEPT ![s] =
          [IdleCall EXCEPT
             !.pc = "await_model", !.user_id = user_id, !.query = query,
             !.messages = <<Turn("system", SystemPrompt)>>
                          \o conversation_history'[user_id]
                          \o <<Turn("user", query)>>,
             !.attempt = 1, !.model_calls = 1,
             !.turns0 = Stored(user_id)]]
    /\ UNCHANGED <<gateVars, auxVars>>

\* The dispatcher hands a query to handle_query.
StartQuery(s, user_id, query) ==
    /\ DispatcherFree
    /\ BeginQuery(s, user_id, query)

\* One attempt of call_llm ends, and handle_query runs to its next await or
\* to its return: lines 130-155 and 241-267.
LLMAttempt(s, outcome) ==
    LET c == calls[s]
        got == call_llm_attempt(outcome)
    IN
    /\ c.pc = "await_model"
    /\ IF got.exc # ""
       THEN IF RetriesExhausted(c.attempt)
            THEN /\ calls' = [calls EXCEPT ![s] =
                        [c EXCEPT !.pc = "done", !.ret = OverloadedMessage,
                                  !.failures = Append(@, got.exc)]]
                 /\ UNCHANGED conversation_history
            ELSE /\ calls' = [calls EXCEPT ![s] =
                        [c EXCEPT !.attempt = @ + 1,
                                  !.failures = Append(@, got.exc)]]
                 /\ UNCHANGED conversation_history
       ELSE LET llm_response == got.val
                parsed == parse_tool_call(llm_response)
            IN
            IF parsed.tool_name = NoTool
            THEN /\ conversation_history' =
                      [conversation_history EXCEPT ![c.user_id] =
                          Trim(@ \o FinalTurns(c, llm_response))]
                 /\ calls' = [calls EXCEPT ![s] =
                        [c EXCEPT !.pc = "done", !.llm_response = llm_response,
                                  !.ret = llm_response]]
            ELSE /\ calls' = [calls EXCEPT ![s] =
                        [c EXCEPT !.pc = "await_tool", !.llm_response = llm_response,
                                  !.tool_name = parsed.tool_name,
                                  !.kwargs = parsed.kwargs,
                                  !.tool_invocations = @ + 1]]
                 /\ UNCHANGED conversation_history
    /\ UNCHANGED <<nq, gateVars, auxVars>>

\* mcp_client.call_tool ends, and handle_query runs to its next await or to
\* its return: lines 266-279 and 240-242.
ToolReturn(s, outcome) ==
    LET c == calls[s]
        tool_result == ToolResult(outcome)
        messages == c.messages \o ToolRoundTurns(c, tool_result)
    IN
    /\ c.pc = "await_tool"
    /\ IF AnotherRound(c.round_num)
       THEN calls' = [calls EXCEPT ![s] =
                [c EXCEPT !.pc = "await_model", !.messages = messages,
                          !.round_num = @ + 1, !.attempt = 1,
                          !.failures = <<>>, !.model_calls = @ + 1,
                          !.tool_outcome = outcome]]
       ELSE calls' = [calls EXCEPT ![s] =
                [c EXCEPT !.pc = "done", !.messages = messages,
                          !.round_num = @ + 1, !.ret = BudgetMessage,
                          !.tool_outcome = outcome]]
    /\ UNCHANGED <<conversation_history, nq, gateVars, auxVars>>

\* handle_query has returned; the caller sends the text (telegram_bot.py 72-73).
Deliver(s) ==
    /\ calls[s].pc = "done"
    /\ calls' = [calls EXCEPT ![s] = IdleCall]
    /\ UNCHANGED <<conversation_history, nq, gateVars, auxVars>>

\* A history nine completed queries leave behind: 18 turns.
OldHistory ==
    [i \in 1..18 |->
        IF i % 2 = 1 THEN Turn("user", <<"old", "query", ToString((i + 1) \div 2)>>)
        ELSE Turn("assistant", <<"old", "answer", ToString(i \div 2)>>)]

LoopIdle ==
    /\ calls = [s \in Slots |-> IdleCall]
    /\ nq = 0

GateIdle ==
    /\ tally_is_alive = "None"
    /\ now = 0
    /\ gate = NoGateCall

NoPureCall == [fn |-> "", arg |-> <<>>, out |-> Raised("none"), again |-> Raised("none")]
Pending == Raised("pending")
NoFallbackCall == [pc |-> "idle", key |-> <<>>, cached |-> Raised("none"), file |-> NoFile,
                   out |-> Raised("none"), at |-> 0]
PureInput(fn, arg) == [fn |-> fn, arg |-> arg, out |-> Pending, again |-> Pending]

AuxIdle ==
    /\ save_call = NoSaveCall
    /\ snap_call = NoSnapCall
    /\ prev = NoGateCall
    /\ tally_call = NoTallyCall
    /\ pure_call = NoPureCall
    /\ fb_call = NoFallbackCall

InitLoop ==
    /\ conversation_history = [u \in {"u2"} |-> OldHistory]
    /\ LoopIdle
    /\ snapshots = [k \in Keys |-> NoFile]
    /\ GateIdle
    /\ AuxIdle

InitGate ==
    /\ snapshots \in [Keys -> InitialFiles]
    /\ \A k \in Keys : ~ParentDirExists(k) => snapshots[k] = NoFile
    /\ GateIdle
    /\ conversation_history = <<>>
    /\ calls = <<>>
    /\ nq = 0
    /\ AuxIdle

NextGate == GateCall \/ Tick

SpecGate == InitGate /\ [][NextGate]_vars

NextLoop ==
    \/ \E s \in Slots, u \in Users, q \in Queries : StartQuery(s, u, q)
    \/ \E s \in Slots, o \in LLMOutcomes : LLMAttempt(s, o)
    \/ \E s \in Slots, o \in ToolOutcomes : ToolReturn(s, o)
    \/ \E s \in Slots : Deliver(s)

SpecLoop == InitLoop /\ [][NextLoop]_vars

(***************************************************************************)
(* Tool invocation through the MCP session (orchestrator.py 47-89)         *)
(***************************************************************************)
\* self.tools after connect(): the names tally_mcp.py registers with
\* @mcp.tool().
DiscoveredTools ==
    {"get_all_ledgers", "get_account_groups", "get_stock_items", "get_trial_balance",
     "get_profit_and_loss", "get_balance_sheet", "get_sundry_debtors",
     "get_sundry_creditors", "search_ledger", "get_transactions_for_date",
     "get_transactions_for_period", "get_tally_status"}

\* A directive naming a tool the server does not register.
CallUnknown == <<"TOOL_CALL:", "get_cash_flow", "(", ")">>
ToolLLMOutcomes ==
    LLMOutcomes \cup {Returned(LLMBody(FALSE, CallUnknown))}

\* What self.session.call_tool(name, arguments) ends with: it raises, or it
\* returns a result whose content is a list of blocks.  For a name the server
\* does not register the session raises or returns the server's error text.
TextBlock(t) == [has_text |-> TRUE, text |-> t]
OtherBlock == [has_text |-> FALSE, text |-> <<>>]
CallToolResult(content) == [content |-> content]
UnknownToolText(name) == <<"Unknown tool: ", name>>
SessionOutcomes(name) ==
    {Raised("McpError")}
    \cup (IF name \in DiscoveredTools
          THEN {Returned(CallToolResult(<<OtherBlock, TextBlock(ToolText)>>)),
                Returned(CallToolResult(<<>>))}
          ELSE {Returned(CallToolResult(<<TextBlock(UnknownToolText(name))>>))})

\* "\n".join(texts)
RECURSIVE JoinLines(_)
JoinLines(texts) ==
    IF texts = <<>> THEN <<>>
    ELSE IF Len(texts) = 1 THEN texts[1]
    ELSE texts[1] \o <<"\n">> \o JoinLines(Tail(texts))

BlockTexts(content) ==
    LET with_text == SelectSeq(content, LAMBDA b : b.has_text)
    IN [i \in 1..Len(with_text) |-> with_text[i].text]

\* TallyMCPClient.call_tool, lines 75-89: the name is passed to the session as
\* it was parsed.
call_tool(name, outcome) ==
    IF outcome.exc # "" THEN outcome
    ELSE IF outcome.val.content # <<>>
         THEN Returned(JoinLines(BlockTexts(outcome.val.content)))
    ELSE Returned(<<"No result returned.">>)

ToolQuery == <<"who", "owes", "us", "money?">>

NextTools ==
    \/ \E s \in Slots : StartQuery(s, "u1", ToolQuery)
    \/ \E s \in Slots, o \in ToolLLMOutcomes : LLMAttempt(s, o)
    \/ \E s \in Slots : \E o \in SessionOutcomes(calls[s].tool_name) :
          ToolReturn(s, call_tool(calls[s].tool_name, o))
    \/ \E s \in Slots : Deliver(s)

SpecTools == InitLoop /\ [][NextTools]_vars

(***************************************************************************)
(* snapshot.save step by step, next to a reader process (snapshot.py)      *)
(***************************************************************************)
\* open(path, "w") has truncated the file: it exists and is empty.
Truncate(key) == [snapshots EXCEPT ![key] = Garbage]

\* save(key, data) builds the record and names the path (lines 18-23).
SaveBegin(key, data) ==
    /\ save_call.pc = "idle"
    /\ save_call' = [pc |-> "built", key |-> key, data |-> data,
                     before |-> snapshots[key],
                     prior |-> IF save_call.key = key /\ save_call.exc = ""
                               THEN save_call.data ELSE <<>>,
                     exc |-> ""]
    /\ UNCHANGED <<gateVars, loopVars, snap_call, prev, tally_call, pure_call, fb_call>>

\* open(path, "w") at line 24: raises when the directory of the path does
\* not exist, truncates the file otherwise.
SaveOpen ==
    /\ save_call.pc = "built"
    /\ IF SaveRaises(save_call.key)
       THEN /\ save_call' = [save_call EXCEPT !.pc = "idle", !.exc = "FileNotFoundError"]
            /\ UNCHANGED snapshots
       ELSE /\ save_call' = [save_call EXCEPT !.pc = "opened"]
            /\ snapshots' = Truncate(save_call.key)
    /\ UNCHANGED <<tally_is_alive, now, gate, loopVars, snap_call, prev, tally_call, pure_call, fb_call>>

\* json.dump has written and the with block closes the file (lines 24-25).
SaveClose ==
    /\ save_call.pc = "opened"
    /\ snapshots' = save(save_call.key, save_call.data)
    /\ save_call' = [save_call EXCEPT !.pc = "idle"]
    /\ UNCHANGED <<tally_is_alive, now, gate, loopVars, snap_call, prev, tally_call, pure_call, fb_call>>

SnapCall(fn, key, out) ==
    [fn |-> fn, key |-> key, out |-> out, at |-> now, file |-> snapshots[key],
     saving |-> save_call.pc # "idle" /\ save_call.key = key,
     before |-> save_call.before, writing |-> save_call.data]

\* load(key) called by a reader.
LoadCall(key) ==
    /\ snap_call' = SnapCall("load", key, load(key))
    /\ UNCHANGED <<gateVars, loopVars, save_call, prev, tally_call, pure_call, fb_call>>

NextStore ==
    \/ \E key \in Keys, data \in Texts : SaveBegin(key, data)
    \/ SaveOpen
    \/ SaveClose
    \/ \E key \in Keys : LoadCall(key)

SpecStore == InitGate /\ [][NextStore]_vars

(***************************************************************************)
(* Snapshot ages (snapshot.py 40-57, tally_mcp.py 63-70 and 622-631)       *)
(***************************************************************************)
\* age_str(key), as the gate's fallback and get_tally_status call it.
AgeStrCall(key) ==
    /\ snap_call' = SnapCall("age_str", key, age_str(key))
    /\ UNCHANGED <<gateVars, loopVars, save_call, prev, tally_call, pure_call, fb_call>>

\* The process runs at some clock reading; the directory holds no file for a
\* key or a record saved at the start of the day or an hour later.
AgeFiles == {NoFile} \cup {JsonFile(SnapshotRecord(<<"rows:", "A">>, t)) : t \in {0, 3600}}
InitAge ==
    /\ now \in AgeInstants
    /\ snapshots \in [Keys -> AgeFiles]
    /\ \A k \in Keys : ~ParentDirExists(k) => snapshots[k] = NoFile
    /\ tally_is_alive = "None"
    /\ gate = NoGateCall
    /\ conversation_history = <<>>
    /\ calls = <<>>
    /\ nq = 0
    /\ AuxIdle

NextAge ==
    \/ \E key \in Keys : AgeStrCall(key)
    \/ GateCall

SpecAge == InitAge /\ [][NextAge]_vars

(***************************************************************************)
(* Transport (tally_mcp.py 102-124)                                        *)
(***************************************************************************)
\* What the requests.post block ends with: one of the exceptions it can raise
\* (raise_for_status raises HTTPError, iter_content ChunkedEncodingError), or
\* the decoded body.
PostOutcomes ==
    {Raised("Timeout"), Raised("ConnectionError"), Raised("HTTPError"),
     Raised("ChunkedEncodingError")}
    \cup {Returned(p) : p \in {PayloadA, Truncated}}

ErrorPayload(message) ==
    <<"<ENVELOPE>", "<ERROR>">> \o message \o <<"</ERROR>", "</ENVELOPE>">>

\* Mutant: without the last except clause.
tally_requestTwoClauses(outcome) ==
    IF outcome.exc = "Timeout" THEN Returned(ErrorPayload(<<"Tally request timed out">>))
    ELSE IF outcome.exc = "ConnectionError"
         THEN Returned(ErrorPayload(<<"Cannot connect to Tally at ", "TALLY_URL">>))
    ELSE outcome

\* _tally_request(xml_payload)
tally_request(outcome) ==
    IF outcome.exc = "Timeout" THEN Returned(ErrorPayload(<<"Tally request timed out">>))
    ELSE IF outcome.exc = "ConnectionError"
         THEN Returned(ErrorPayload(<<"Cannot connect to Tally at ", "TALLY_URL">>))
    ELSE IF outcome.exc # "" THEN Returned(ErrorPayload(<<outcome.exc>>))
    ELSE Returned(outcome.val)

\* A tool whose fetch_fn is the transport call, run through the gate.
TallyGateCall ==
    \E key \in Keys, outcome \in PostOutcomes :
        /\ tally_call' = [outcome |-> outcome, ret |-> tally_request(outcome)]
        /\ live_or_cache(key, tally_request(outcome))
        /\ UNCHANGED <<now, loopVars, save_call, snap_call, prev, pure_call, fb_call>>

NextTransport == TallyGateCall \/ Tick

SpecTransport == InitGate /\ [][NextTransport]_vars

(***************************************************************************)
(* Two gate calls in a row (tally_mcp.py 30-72)                            *)
(***************************************************************************)
\* A gate call, remembering the call before it.
GatePairCall ==
    \E key \in Keys, fetched \in FetchOutcomes :
        /\ live_or_cache(key, fetched)
        /\ prev' = gate
        /\ UNCHANGED <<now, loopVars, save_call, snap_call, tally_call, pure_call, fb_call>>

NextGatePair == GatePairCall \/ Tick

\* The directory holds at most a file for the trial balance at the start.
InitGatePair == InitGate /\ snapshots[KeyPnl] = NoFile

SpecGatePair == InitGatePair /\ [][NextGatePair]_vars


(***************************************************************************)
(* Pure functions: each is called once on an input drawn at the start      *)
(***************************************************************************)
PureIdle ==
    /\ snapshots = [k \in Keys |-> NoFile]
    /\ GateIdle
    /\ conversation_history = <<>>
    /\ calls = <<>>
    /\ nq = 0
    /\ save_call = NoSaveCall
    /\ snap_call = NoSnapCall
    /\ prev = NoGateCall
    /\ tally_call = NoTallyCall
    /\ fb_call = NoFallbackCall

PureFrame ==
    UNCHANGED <<gateVars, loopVars, save_call, snap_call, prev, tally_call, fb_call>>

\* All sequences over S of length at most n.
SeqsUpTo(S, n) == UNION {[1..k -> S] : k \in 0..n}

(***************************************************************************)
(* Voucher amounts (tally_mcp.py 296-342)                                  *)
(***************************************************************************)
MaxEntries == 3        \* child blocks of one voucher

\* A float is a number or not-a-number; amounts are in whole rupees.
FNum(n) == [kind |-> "num", n |-> n]
FNan == [kind |-> "nan", n |-> 0]
FAbs(f) == IF f.kind = "nan" THEN f ELSE FNum(IF f.n < 0 THEN 0 - f.n ELSE f.n)
FAdd(f, g) == IF f.kind = "nan" \/ g.kind = "nan" THEN FNan ELSE FNum(f.n + g.n)
FPositive(f) == f.kind = "num" /\ f.n > 0

\* float(text): the texts it converts; any other text raises ValueError.
FloatTexts ==
    [t \in {"-200.00", "300.00", "-50.00", "30.00", "-7.00", "0.00", "nan"} |->
        CASE t = "-200.00" -> FNum(0 - 200)
          [] t = "300.00" -> FNum(300)
          [] t = "-50.00" -> FNum(0 - 50)
          [] t = "30.00" -> FNum(30)
          [] t = "-7.00" -> FNum(0 - 7)
          [] t = "0.00" -> FNum(0)
          [] t = "nan" -> FNan]
PyFloat(text) ==
    IF text \in DOMAIN FloatTexts THEN Returned(FloatTexts[text]) ELSE Raised("ValueError")
\* text.strip() is empty
Blank(text) == text \in {"", " "}

\* A child block of a voucher: its tag, the text of its ISPARTYLEDGER child
\* ("No" when it has none) and the text of its AMOUNT child ("" when it has
\* none or an empty one).
Entry(tag, party, amount) == [tag |-> tag, party |-> party, amount |-> amount]
VoucherEntries ==
    {Entry("ALLLEDGERENTRIES.LIST", "Yes", a) : a \in {"-200.00", "abc", "", "nan", "0.00"}}
    \cup {Entry("ALLLEDGERENTRIES.LIST", "No", "-7.00")}
    \cup {Entry("LEDGERENTRIES.LIST", "Yes", a) : a \in {"300.00", " "}}
    \cup {Entry("INVENTORYENTRIES.LIST", "No", a) : a \in {"-50.00", "30.00", "abc", "0.00"}}
    \cup {Entry("BILLALLOCATIONS.LIST", "No", a) : a \in {"-7.00", "0.00"}}
Vouchers == SeqsUpTo(VoucherEntries, MaxEntries)

NotFound == [found |-> FALSE, val |-> FNum(0)]
Found(f) == [found |-> TRUE, val |-> f]

\* Lines 301-308 and 311-318: the loop over the blocks of one tag.
RECURSIVE PartyAmount(_, _, _)
PartyAmount(v, tag, i) ==
    IF i > Len(v) THEN NotFound
    ELSE IF /\ v[i].tag = tag
            /\ v[i].party = "Yes"
            /\ v[i].amount # ""
            /\ PyFloat(v[i].amount).exc = ""
         THEN Found(FAbs(PyFloat(v[i].amount).val))
    ELSE PartyAmount(v, tag, i + 1)

\* Lines 321-328: inv_total
RECURSIVE InvTotal(_, _, _)
InvTotal(v, i, total) ==
    IF i > Len(v) THEN total
    ELSE IF /\ v[i].tag = "INVENTORYENTRIES.LIST"
            /\ v[i].amount # ""
            /\ PyFloat(v[i].amount).exc = ""
         THEN InvTotal(v, i + 1, FAdd(total, FAbs(PyFloat(v[i].amount).val)))
    ELSE InvTotal(v, i + 1, total)

\* Lines 333-340: the first AMOUNT element, in document order, that is positive.
RECURSIVE FirstPositive(_, _)
FirstPositive(v, i) ==
    IF i > Len(v) THEN NotFound
    ELSE IF /\ ~Blank(v[i].amount)
            /\ PyFloat(v[i].amount).exc = ""
            /\ FPositive(FAbs(PyFloat(v[i].amount).val))
         THEN Found(FAbs(PyFloat(v[i].amount).val))
    ELSE FirstPositive(v, i + 1)

\* Mutant: the inventory total is tried before the party entries.
extract_voucher_amountInventoryFirst(v) ==
    IF FPositive(InvTotal(v, 1, FNum(0))) THEN InvTotal(v, 1, FNum(0))
    ELSE IF PartyAmount(v, "ALLLEDGERENTRIES.LIST", 1).found
         THEN PartyAmount(v, "ALLLEDGERENTRIES.LIST", 1).val
    ELSE IF PartyAmount(v, "LEDGERENTRIES.LIST", 1).found
         THEN PartyAmount(v, "LEDGERENTRIES.LIST", 1).val
    ELSE IF FirstPositive(v, 1).found THEN FirstPositive(v, 1).val
    ELSE FNum(0)

\* _extract_voucher_amount(voucher_el)
extract_voucher_amount(v) ==
    IF PartyAmount(v, "ALLLEDGERENTRIES.LIST", 1).found
    THEN PartyAmount(v, "ALLLEDGERENTRIES.LIST", 1).val
    ELSE IF PartyAmount(v, "LEDGERENTRIES.LIST", 1).found
         THEN PartyAmount(v, "LEDGERENTRIES.LIST", 1).val
    ELSE IF FPositive(InvTotal(v, 1, FNum(0))) THEN InvTotal(v, 1, FNum(0))
    ELSE IF FirstPositive(v, 1).found THEN FirstPositive(v, 1).val
    ELSE FNum(0)

InitVoucher ==
    /\ PureIdle
    /\ pure_call \in {PureInput("extract_voucher_amount", v) : v \in Vouchers}

VoucherCall ==
    /\ pure_call.fn = "extract_voucher_amount"
    /\ pure_call.out = Pending
    /\ pure_call' = [pure_call EXCEPT !.out = Returned(extract_voucher_amount(pure_call.arg))]
    /\ PureFrame

NextVoucher == VoucherCall

SpecVoucher == InitVoucher /\ [][NextVoucher]_vars


(***************************************************************************)
(* Report parsers (tally_mcp.py 179-260)                                   *)
(***************************************************************************)
MaxRows == 2           \* elements of one kind in one response

\* A LEDGER element: its NAME attribute and the texts of its PARENT and
\* CLOSINGBALANCE children ("" when the child or its text is missing).
LedgerElements ==
    [name : {"", "Cash"}, parent : {"", "Cash-in-Hand"},
     closing : {"", " ", "-50.00", "abc"}]

\* Line 197: the balance of one ledger.
LedgerBalance(el) ==
    IF Blank(el.closing) THEN Returned(FNum(0)) ELSE PyFloat(el.closing)

RECURSIVE LedgerRows(_)
LedgerRows(els) ==
    IF els = <<>> THEN <<>>
    ELSE IF Head(els).name = "" THEN LedgerRows(Tail(els))
    ELSE <<[name |-> Head(els).name, group |-> Head(els).parent,
            balance |-> LedgerBalance(Head(els)).val]>> \o LedgerRows(Tail(els))

\* _parse_ledgers(raw), on the LEDGER elements of the response
parse_ledgers(els) ==
    IF \E i \in 1..Len(els) : els[i].name # "" /\ LedgerBalance(els[i]).exc # ""
    THEN Raised("ValueError")
    ELSE Returned(LedgerRows(els))

\* A display report: the non-empty DSPDISPNAME texts and the texts of the
\* two amount columns, each in document order.
AmountTexts == {"", "300.00", "abc"}
Reports ==
    [amount_tag : {"trial_balance", "pnl", "balance_sheet"},
     names : SeqsUpTo({"Sales"}, MaxRows),
     main : SeqsUpTo(AmountTexts, MaxRows),
     sub : SeqsUpTo(AmountTexts, MaxRows)]

\* els[i].text.strip() if i < len(els) and els[i].text and els[i].text.strip() else default
ColumnText(els, i, default) ==
    IF i <= Len(els) /\ ~Blank(els[i]) THEN els[i] ELSE default
Or(a, b) == IF a # "" THEN a ELSE b

\* _parse_display_report(raw, amount_tag)
parse_display_report(r) ==
    CASE r.amount_tag = "trial_balance" ->
           [i \in 1..Len(r.names) |->
               [name |-> r.names[i], debit |-> ColumnText(r.main, i, ""),
                credit |-> ColumnText(r.sub, i, "")]]
      [] r.amount_tag = "pnl" ->
           [i \in 1..Len(r.names) |->
               [name |-> r.names[i],
                amount |-> Or(ColumnText(r.main, i, ""), Or(ColumnText(r.sub, i, ""), "0"))]]
      [] r.amount_tag = "balance_sheet" ->
           [i \in 1..Len(r.names) |->
               [name |-> r.names[i], amount |-> ColumnText(r.main, i, "0")]]

InitParse ==
    /\ PureIdle
    /\ pure_call \in {PureInput("parse_ledgers", els) : els \in SeqsUpTo(LedgerElements, MaxRows)}
                     \cup {PureInput("parse_display_report", r) : r \in Reports}

ParseLedgersCall ==
    /\ pure_call.fn = "parse_ledgers"
    /\ pure_call.out = Pending
    /\ pure_call' = [pure_call EXCEPT !.out = parse_ledgers(pure_call.arg)]
    /\ PureFrame

ParseReportCall ==
    /\ pure_call.fn = "parse_display_report"
    /\ pure_call.out = Pending
    /\ pure_call' = [pure_call EXCEPT !.out = Returned(parse_display_report(pure_call.arg))]
    /\ PureFrame

NextParse == ParseLedgersCall \/ ParseReportCall

SpecParse == InitParse /\ [][NextParse]_vars


(***************************************************************************)
(* XML sanitization (tally_mcp.py 80-90); a text is a sequence of code     *)
(* points                                                                  *)
(***************************************************************************)
MaxChars == 5          \* length of a free-form raw text
MaxCode == 40          \* largest code point written as a reference or raw

Amp == 38              \* &
Hash == 35             \* #
Semi == 59             \* ;
Digit(d) == 48 + d
LetterA == 97
LetterB == 98

\* 1[0-1]|1[4-9]|2[0-9]|3[01]
TwoDigits(a, b) ==
    \/ a = Digit(1) /\ b \in Digit(0)..Digit(1)
    \/ a = Digit(1) /\ b \in Digit(4)..Digit(9)
    \/ a = Digit(2) /\ b \in Digit(0)..Digit(9)
    \/ a = Digit(3) /\ b \in Digit(0)..Digit(1)

\* Length of the match of _ILLEGAL_XML_CHARS at the start of t, 0 if none.
RefLen(t) ==
    IF Len(t) >= 4 /\ t[1] = Amp /\ t[2] = Hash /\ t[3] \in Digit(0)..Digit(8) /\ t[4] = Semi
    THEN 4
    ELSE IF Len(t) >= 5 /\ t[1] = Amp /\ t[2] = Hash /\ TwoDigits(t[3], t[4]) /\ t[5] = Semi
         THEN 5
    ELSE 0

\* _ILLEGAL_XML_CHARS.sub('', raw): leftmost matches, not overlapping
RECURSIVE SubRefs(_)
SubRefs(t) ==
    IF t = <<>> THEN <<>>
    ELSE IF RefLen(t) > 0 THEN SubRefs(SubSeq(t, RefLen(t) + 1, Len(t)))
    ELSE <<Head(t)>> \o SubRefs(Tail(t))

\* [\x00-\x08\x0b\x0c\x0e-\x1f]
IllegalRaw(c) == c \in (0..8) \cup {11, 12} \cup (14..31)
RECURSIVE SubRaw(_)
SubRaw(t) ==
    IF t = <<>> THEN <<>>
    ELSE IF IllegalRaw(Head(t)) THEN SubRaw(Tail(t))
    ELSE <<Head(t)>> \o SubRaw(Tail(t))

\* _clean_xml(raw)
clean_xml(raw) == SubRaw(SubRefs(raw))

\* The text &#N; for a number below 100, written without leading zero.
Decimal(n) == IF n < 10 THEN <<Digit(n)>> ELSE <<Digit(n \div 10), Digit(n % 10)>>
Reference(n) == <<Amp, Hash>> \o Decimal(n) \o <<Semi>>
Between(t) == <<LetterA>> \o t \o <<LetterB>>

RawAlphabet == {Amp, Hash, Digit(1), Semi, 1}
RawTexts ==
    SeqsUpTo(RawAlphabet, MaxChars)
    \cup {Between(Reference(n)) : n \in 0..MaxCode}
    \cup {Between(<<c>>) : c \in 0..MaxCode}

InitClean ==
    /\ PureIdle
    /\ pure_call \in {PureInput("clean_xml", raw) : raw \in RawTexts}

\* The sanitizer on a raw response
CleanCall ==
    /\ pure_call.fn = "clean_xml"
    /\ pure_call.out = Pending
    /\ pure_call' = [pure_call EXCEPT !.out = Returned(clean_xml(pure_call.arg))]
    /\ PureFrame

\* The sanitizer on its own output
CleanAgain ==
    /\ pure_call.fn = "clean_xml"
    /\ pure_call.out # Pending
    /\ pure_call.again = Pending
    /\ pure_call' = [pure_call EXCEPT !.again = Returned(clean_xml(pure_call.out.val))]
    /\ PureFrame

NextClean == CleanCall \/ CleanAgain

SpecClean == InitClean /\ [][NextClean]_vars


(***************************************************************************)
(* Directive parsing (orchestrator.py 158-172) on texts built from a tool  *)
(* name and an argument list                                               *)
(***************************************************************************)
MaxArgs == 2           \* arguments of one directive
MaxValueTokens == 2    \* tokens of one argument value

\* Tokens of a value: none is a double quote; ")" is the one with a closing
\* parenthesis in it.
ValueTokens == {"(India", ")"}
ArgNames == {"partial_name", "date"}
\* An argument as written: name="value", or name=value without quotes.
WrittenArgs ==
    [name : ArgNames, quoted : {TRUE}, value : SeqsUpTo(ValueTokens, MaxValueTokens)]
    \cup [name : {"date"}, quoted : {FALSE}, value : {<<"20250401">>}]

ArgText(a) ==
    IF a.quoted THEN <<a.name, "=", "\"">> \o a.value \o <<"\"">>
    ELSE <<a.name, "=">> \o a.value

RECURSIVE ArgListText(_)
ArgListText(args) ==
    IF args = <<>> THEN <<>>
    ELSE IF Len(args) = 1 THEN ArgText(args[1])
    ELSE ArgText(args[1]) \o <<",">> \o ArgListText(Tail(args))

\* The model's text with the directive TOOL_CALL: name(args) in it.
DirectiveText(name, args) ==
    <<"Let", "me", "check.", "TOOL_CALL:", name, "(">> \o ArgListText(args) \o <<")">>

Directives ==
    {[text |-> DirectiveText(n, args), name |-> n, args |-> args] :
        n \in {"search_ledger"}, args \in SeqsUpTo(WrittenArgs, MaxArgs)}
    \cup {[text |-> t, name |-> NoTool, args |-> <<>>] :
            t \in {FinalAnswer, <<"TOOL_CALL:">>, <<"search_ledger", "(", ")">>}}

InitDirective ==
    /\ PureIdle
    /\ pure_call \in {PureInput("parse_tool_call", d) : d \in Directives}

ParseCall ==
    /\ pure_call.fn = "parse_tool_call"
    /\ pure_call.out = Pending
    /\ pure_call' = [pure_call EXCEPT !.out = Returned(parse_tool_call(pure_call.arg.text))]
    /\ PureFrame

NextDirective == ParseCall

SpecDirective == InitDirective /\ [][NextDirective]_vars


(***************************************************************************)
(* Termination of a query (orchestrator.py 130-155, 238-279): the loop with *)
(* a model endpoint whose body may carry no text, every awaited call       *)
(* ending                                                                  *)
(***************************************************************************)
\* The endpoint answers 200 with "content": null: call_llm returns None
\* (line 155) and llm_response[:150] at line 247, outside the try, raises
\* TypeError out of handle_query.
LLMNullContent(s) ==
    /\ calls[s].pc = "await_model"
    /\ calls' = [calls EXCEPT ![s] = [@ EXCEPT !.pc = "raised"]]
    /\ UNCHANGED <<conversation_history, nq, gateVars, auxVars>>

\* handle_message catches what handle_query raises and replies with the
\* error text (telegram_bot.py 72-75).
CallerCatches(s) ==
    /\ calls[s].pc = "raised"
    /\ calls' = [calls EXCEPT ![s] = IdleCall]
    /\ UNCHANGED <<conversation_history, nq, gateVars, auxVars>>

ModelCallEnds ==
    \/ \E s \in Slots, o \in LLMOutcomes : LLMAttempt(s, o)
    \/ \E s \in Slots : LLMNullContent(s)
ToolCallReturns == \E s \in Slots, o \in ToolOutcomes : ToolReturn(s, o)

NextTerminate ==
    \/ \E s \in Slots, q \in Queries : StartQuery(s, "u1", q)
    \/ ModelCallEnds
    \/ ToolCallReturns
    \/ \E s \in Slots : Deliver(s)
    \/ \E s \in Slots : CallerCatches(s)

\* Every model attempt and every tool invocation eventually returns or fails.
SpecTerminate ==
    /\ InitLoop
    /\ [][NextTerminate]_vars
    /\ WF_vars(ModelCallEnds)
    /\ WF_vars(ToolCallReturns)


(***************************************************************************)
(* Overlapping queries and /clear (orchestrator.py 229-262,                *)
(* telegram_bot.py 78-85): handlers run as concurrent tasks                *)
(***************************************************************************)
\* Mutant: the last pair of the history survives the command.
clearKeepsLastPair(uid) ==
    [u \in DOMAIN conversation_history \cup {uid} |->
        IF u = uid /\ Len(Stored(u)) > 2
        THEN SubSeq(Stored(u), Len(Stored(u)) - 1, Len(Stored(u)))
        ELSE IF u = uid THEN <<>> ELSE Stored(u)]

\* conversation_history.pop(uid, None); conversation_history[uid] = []
clear(uid) ==
    [u \in DOMAIN conversation_history \cup {uid} |->
        IF u = uid THEN <<>> ELSE Stored(u)]

\* The /clear command, up to its await: both statements run without a
\* suspension point between them.
Clear(uid) ==
    /\ conversation_history' = clear(uid)
    /\ UNCHANGED <<calls, nq, gateVars, auxVars>>

\* What the endpoint does in the runs of overlapping queries: it fails, or it
\* answers without a directive (tool rounds store nothing in the history).
OverlapLLMOutcomes == {Raised("HTTPStatusError"), Returned(LLMBody(FALSE, FinalAnswer))}
OverlapUser == "u2"

NextOverlap ==
    \/ \E s \in Slots, q \in Queries : BeginQuery(s, OverlapUser, q)
    \/ \E s \in Slots, o \in OverlapLLMOutcomes : LLMAttempt(s, o)
    \/ \E s \in Slots : Deliver(s)
    \/ Clear(OverlapUser)

SpecOverlap == InitLoop /\ [][NextOverlap]_vars


(***************************************************************************)
(* The except branch of the gate (tally_mcp.py 59-72) next to a save of    *)
(* another process: load and age_str each read the file of the key         *)
(***************************************************************************)
FallbackKey == KeyPnl

\* Lines 59-63: the live attempt has failed; _tally_is_alive = False and
\* cached = snapshot.load(cache_key).  Without a truthy record the call
\* returns here (line 72), or load raises out of it.
FallbackLoad(key) ==
    LET cached == load(key) IN
    /\ fb_call.pc # "loaded"
    /\ tally_is_alive' = "False"
    /\ fb_call' =
          [pc |-> IF cached.exc = "" /\ Truthy(cached.val) THEN "loaded" ELSE "returned",
           key |-> key, cached |-> cached, file |-> snapshots[key], at |-> now,
           out |-> IF cached.exc # "" THEN cached
                   ELSE IF Truthy(cached.val) THEN Pending
                   ELSE Returned(NoCacheMessage)]
    /\ UNCHANGED <<snapshots, now, gate, loopVars, save_call, snap_call, prev,
                   tally_call, pure_call>>

\* Lines 64-70: age = snapshot.age_str(cache_key) reads the file again, and
\* the banner with that age is put before cached['data'].
FallbackAge ==
    LET age == age_str(fb_call.key)
        cached == fb_call.cached.val
    IN
    /\ fb_call.pc = "loaded"
    /\ fb_call' =
          [fb_call EXCEPT
             !.pc = "returned", !.at = now,
             !.out = IF age.exc # "" THEN age
                     ELSE IF "data" \notin cached.keys THEN Raised("KeyError")
                     ELSE Returned(Banner(age.val) \o cached.data)]
    /\ UNCHANGED <<gateVars, loopVars, save_call, snap_call, prev, tally_call, pure_call>>

\* The store holds nothing or a record saved when the run begins.
InitFallback ==
    /\ snapshots \in [Keys -> {NoFile} \cup {JsonFile(SnapshotRecord(d, 0)) : d \in Texts}]
    /\ \A k \in Keys : k # FallbackKey => snapshots[k] = NoFile
    /\ GateIdle
    /\ conversation_history = <<>>
    /\ calls = <<>>
    /\ nq = 0
    /\ AuxIdle

NextFallback ==
    \/ FallbackLoad(FallbackKey)
    \/ FallbackAge
    \/ \E data \in Texts : SaveBegin(FallbackKey, data)
    \/ SaveOpen
    \/ SaveClose
    \/ Tick

SpecFallback == InitFallback /\ [][NextFallback]_vars


(***************************************************************************)
(* Cache keys of the tools with arguments (tally_mcp.py 520-598)           *)
(***************************************************************************)
\* A string argument is a sequence of tokens; "_" is a token of its own.
\* str.lower() of the search terms used here.
Lower(token) ==
    CASE token = "Cash" -> "cash"
      [] token = "Bank" -> "bank"
      [] OTHER -> token
LowerText(text) == [i \in 1..Len(text) |-> Lower(text[i])]

ToolCall(tool, args) == [tool |-> tool, args |-> args]
ToolCalls ==
    {ToolCall("search_ledger", <<n>>) : n \in {<<"Cash">>, <<"cash">>, <<"Bank">>}}
    \cup {ToolCall("get_transactions_for_date", <<d>>) :
            d \in {<<"20250401">>, <<"20250401", "_", "20250407">>}}
    \cup {ToolCall("get_transactions_for_period", <<<<"20250401">>, <<"20250407">>>>)}

\* The cache key the tool passes to the gate: one path segment, the
\* f-string of lines 541, 565 and 598.
cache_key(c) ==
    CASE c.tool = "search_ledger" -> <<<<"search_">> \o LowerText(c.args[1])>>
      [] c.tool = "get_transactions_for_date" -> <<<<"txn_">> \o c.args[1]>>
      [] c.tool = "get_transactions_for_period" ->
           <<<<"txn_">> \o c.args[1] \o <<"_">> \o c.args[2]>>
ToolKeys == {cache_key(c) : c \in ToolCalls}

\* What the tool's fetch returns when Tally answers, together with the
\* arguments its format closure writes into the text: the search term enters
\* the matching in lower case (line 528), the dates as given.
RECURSIVE Flatten(_)
Flatten(args) == IF args = <<>> THEN <<>> ELSE Head(args) \o Flatten(Tail(args))
ToolPayload(c) ==
    <<"<ENVELOPE>", c.tool>>
    \o (IF c.tool = "search_ledger" THEN LowerText(c.args[1]) ELSE Flatten(c.args))
    \o <<"</ENVELOPE>">>

\* One tool call: _live_or_cache(cache_key, fetch, format), lines 541, 565, 598.
ToolGateCall(c, fetched) ==
    /\ live_or_cache(cache_key(c), fetched)
    /\ pure_call' = [fn |-> c.tool, arg |-> c.args, out |-> gate'.out, again |-> Pending]
    /\ UNCHANGED <<now, loopVars, save_call, snap_call, prev, tally_call, fb_call>>

InitKeys ==
    /\ snapshots = [k \in ToolKeys |-> NoFile]
    /\ GateIdle
    /\ conversation_history = <<>>
    /\ calls = <<>>
    /\ nq = 0
    /\ AuxIdle

NextKeys ==
    \E c \in ToolCalls :
        \/ ToolGateCall(c, Returned(ToolPayload(c)))
        \/ ToolGateCall(c, Raised("ConnectionError"))

SpecKeys == InitKeys /\ [][NextKeys]_vars

(***************************************************************************)
(* /clear in the bot as main() builds it (telegram_bot.py 78-100): the     *)
(* command is an update like any other, handled when the handler of the    *)
(* previous update has returned                                            *)
(***************************************************************************)
\* The dispatcher hands a /clear command to its handler.
ClearCommand(uid) ==
    /\ DispatcherFree
    /\ Clear(uid)

NextClear ==
    \/ \E s \in Slots, u \in Users, q \in Queries : StartQuery(s, u, q)
    \/ \E s \in Slots, o \in OverlapLLMOutcomes : LLMAttempt(s, o)
    \/ \E s \in Slots : Deliver(s)
    \/ \E u \in Users : ClearCommand(u)

SpecClear == InitLoop /\ [][NextClear]_vars

(***************************************************************************)
(* Properties of the Live-or-Cache gate, checked under SpecGate            *)
(***************************************************************************)

GateCalled == gate.key \in Keys
FormatReturned ==
    /\ gate.fetched.exc = ""
    /\ ~HasErrorMarker(gate.fetched.val)
    /\ format_fn(gate.fetched.val).exc = ""
FormattedText == format_fn(gate.fetched.val).val

\* The stale answer built from the record the store held when the call began.
StaleAnswerOf(file, at) ==
    Banner(AgeLabel(Minutes(FromIsoFormat(file.json.saved_at), at))) \o file.json.data
HeldSnapshot(file) ==
    file.kind = "json" /\ {"data", "saved_at"} \subseteq file.json.keys

\* C1: never silently stale. Whatever the key, the fetch and format outcome
\* and the store, a text returned by the gate is (a) the output of format on
\* the payload fetched in this call, (b) the stored snapshot's data behind the
\* offline banner carrying its age, or (c) the fixed no-cached-data message;
\* stored data never comes back without the banner.
NeverSilentlyStale ==
    (GateCalled /\ gate.out.exc = "") =>
        \/ FormatReturned /\ gate.out.val = FormattedText
        \/ HeldSnapshot(gate.before) /\ gate.out.val = StaleAnswerOf(gate.before, gate.at)
        \/ gate.out.val = NoCacheMessage

\* A failed fetch answered from a 90 minute old snapshot whose data differs
\* from anything fetched in the call.
StaleAnswerSeen ==
    /\ GateCalled
    /\ gate.fetched = Returned(ErrorEnvelope)
    /\ gate.out.exc = ""
    /\ gate.out.val = Banner(<<"1", "h ago">>) \o <<"rows:", "A">>

\* C2: fallback correctness. Whenever fetch raises, the gate does not raise:
\* it returns the banner-prefixed snapshot data when the store holds something
\* for the key and the fixed no-cached-data message when it holds nothing,
\* whatever the store holds (nothing, a record, a corrupt or incomplete file).
FallbackNeverRaises ==
    (GateCalled /\ gate.fetched.exc # "") =>
        /\ gate.out.exc = ""
        /\ \/ gate.out.val = NoCacheMessage
           \/ HeldSnapshot(gate.before)
              /\ gate.out.val = StaleAnswerOf(gate.before, gate.at)

\* C3: live success path. Whenever fetch returns a payload without the error
\* marker and format returns T, the gate returns exactly T, the backend is
\* marked reachable and the store holds T for the key afterwards.
LiveSuccessPath ==
    (GateCalled /\ FormatReturned) =>
        /\ gate.out.exc = ""
        /\ gate.out.val = FormattedText
        /\ tally_is_alive = "True"
        /\ load(gate.key).exc = ""
        /\ Truthy(load(gate.key).val)
        /\ load(gate.key).val.data = FormattedText

\* The fetch failed: fetch_fn raised or returned a payload with the marker.
FetchFailedIn(g) == g.fetched.exc # "" \/ HasErrorMarker(g.fetched.val)
\* The fetch succeeded and format_fn raised on its payload.
FormatFailedIn(g) ==
    /\ g.fetched.exc = ""
    /\ ~HasErrorMarker(g.fetched.val)
    /\ format_fn(g.fetched.val).exc # ""

\* C13: when the fetch succeeds but format raises, the gate marks the backend
\* unreachable, leaves the snapshot unchanged, and returns the banner-prefixed
\* snapshot or the no-cached-data message, as for a failed fetch.
FormatFailureFallsBack ==
    (GateCalled /\ FormatFailedIn(gate)) =>
        /\ tally_is_alive = "False"
        /\ snapshots[gate.key] = gate.before
        /\ gate.out.exc = ""
        /\ \/ gate.out.val = NoCacheMessage
           \/ /\ HeldSnapshot(gate.before)
              /\ gate.out.val = StaleAnswerOf(gate.before, gate.at)

(***************************************************************************)
(* Properties of two gate calls in a row, checked under SpecGatePair       *)
(***************************************************************************)

\* The last two calls had the same key, the same fetch outcome, the same
\* stored file and the same clock, and differ in the flag they found.
SameRunButFlag ==
    /\ GateCalled
    /\ prev.key = gate.key
    /\ prev.fetched = gate.fetched
    /\ prev.before = gate.before
    /\ prev.at = gate.at
    /\ prev.alive_before # gate.alive_before

LiveResultStored ==
    /\ FormatReturned
    /\ gate.out = Returned(FormattedText)
    /\ snapshots[gate.key] = JsonFile(SnapshotRecord(FormattedText, gate.at))

\* C17: the reachability flag never routes. Two gate runs that differ only in
\* the flag value found give the same outcome and leave the same file (the
\* file the second run found is the one the first run left). Whatever flag a
\* run finds, the fetch outcome decides it: when the fetch returned without
\* the marker, format returned and the file could be written, the live result
\* is returned and stored and the flag is "True"; after every other run the
\* file is unchanged and the flag is "False".
FlagNeverRoutes ==
    /\ SameRunButFlag =>
          /\ gate.out = prev.out
          /\ snapshots[gate.key] = gate.before
    /\ GateCalled =>
          IF FormatReturned /\ ParentDirExists(gate.key)
          THEN tally_is_alive = "True" /\ LiveResultStored
          ELSE tally_is_alive = "False" /\ snapshots[gate.key] = gate.before

\* Witness: a live fetch right after a failed one, and a repeat of it: the
\* two runs found the flag "False" and "True" and both returned live data.
FlagDiffersSeen ==
    /\ SameRunButFlag
    /\ prev.alive_before = "False"
    /\ gate.alive_before = "True"
    /\ gate.fetched = Returned(PayloadA)
    /\ gate.out = Returned(<<"rows:", "A">>)

(***************************************************************************)
(* Properties of the orchestration loop, checked under SpecLoop            *)
(***************************************************************************)

InFlight(c) == c.pc \in {"await_model", "await_tool"}
EndedWithAnswer(c) == c.pc = "done" /\ c.ret \notin {OverloadedMessage, BudgetMessage}
EndedFailed(c) == c.pc = "done" /\ c.ret \in {OverloadedMessage, BudgetMessage}
IsToolResultTurn(e) ==
    e.role = "user" /\ Len(e.content) >= 1 /\ e.content[1] = "TOOL_RESULT for "
HasDirective(text) == parse_tool_call(text).tool_name # NoTool

\* C4: round budget. A query makes at most 5 model calls and at most 5 tool
\* invocations; a query whose 5 rounds all produced a tool call has returned
\* the fixed could-not-complete message, and that message is returned in no
\* other case.
RoundBudget ==
    \A s \in Slots :
        LET c == calls[s] IN
        /\ c.model_calls <= 5
        /\ c.tool_invocations <= 5
        /\ c.round_num <= 5
        /\ (c.pc = "done" /\ c.tool_invocations = 5) => c.ret = BudgetMessage
        /\ (c.pc = "done" /\ c.ret = BudgetMessage) =>
               c.model_calls = 5 /\ c.tool_invocations = 5

BudgetExhaustedSeen ==
    \E s \in Slots :
        /\ calls[s].pc = "done"
        /\ calls[s].ret = BudgetMessage
        /\ calls[s].tool_invocations = 5
        /\ calls[s].model_calls = 5

\* What a tool round appends for some output of the tool.
ToolRoundAppended(c, d) ==
    \E o \in ToolOutcomes :
        d.messages = c.messages
            \o <<Turn("assistant", c.llm_response),
                 Turn("user", <<"TOOL_RESULT for ", c.tool_name, ":\n">> \o ToolResult(o))>>

\* A model response that parses as a tool call invokes that tool once.
ToolInvokedOnce(c, d) ==
    (c.pc = "await_model" /\ d.pc = "await_tool") =>
        /\ d.tool_name = parse_tool_call(d.llm_response).tool_name
        /\ d.tool_name # NoTool
        /\ d.kwargs = parse_tool_call(d.llm_response).kwargs
        /\ d.tool_invocations = c.tool_invocations + 1
        /\ d.messages = c.messages

\* C5 as stated: in any round, a model response that parses as a tool call
\* invokes the tool once, the call text and the TOOL_RESULT turn are appended,
\* the round count goes up by exactly 1 and another model call is issued with
\* the extended messages.
ToolCallStepInAnyRound ==
    [][\A s \in Slots :
        LET c == calls[s]
            d == calls'[s]
        IN
        /\ ToolInvokedOnce(c, d)
        /\ (c.pc = "await_tool" /\ d # c) =>
              /\ ToolRoundAppended(c, d)
              /\ d.round_num = c.round_num + 1
              /\ d.tool_invocations = c.tool_invocations
              /\ d.pc = "await_model"
              /\ d.model_calls = c.model_calls + 1]_vars

\* C5 amended: the same in rounds 1 to 4; in round 5 the tool is invoked and
\* the two turns are appended as well, the round count goes up by 1, but no
\* further model call is issued: the query returns the round-budget message.
ToolCallStep ==
    [][\A s \in Slots :
        LET c == calls[s]
            d == calls'[s]
        IN
        /\ ToolInvokedOnce(c, d)
        /\ (c.pc = "await_tool" /\ d # c) =>
              /\ ToolRoundAppended(c, d)
              /\ d.round_num = c.round_num + 1
              /\ d.tool_invocations = c.tool_invocations
              /\ IF c.round_num < 4
                 THEN d.pc = "await_model" /\ d.model_calls = c.model_calls + 1
                 ELSE /\ d.pc = "done" /\ d.ret = BudgetMessage
                      /\ d.model_calls = c.model_calls]_vars

ToolRoundSeen ==
    \E s \in Slots :
        LET c == calls[s] IN
        /\ c.pc = "await_model"
        /\ c.round_num = 1
        /\ c.model_calls = 2
        /\ c.messages[Len(c.messages) - 1] = Turn("assistant", CallSearch)
        /\ c.messages[Len(c.messages)] = ToolResultTurn("search_ledger", ToolText)

\* C6: model-call retry. Within a round the endpoint is attempted at most 3
\* times; a transport error and an in-band error are both retried with the
\* same messages; a success on attempt 1, 2 or 3 continues the round; after 3
\* failed attempts in a row the query ends at once with the overloaded
\* message, whatever the round, and nothing more is called for it.
RetryState(c) ==
    /\ c.attempt <= 3
    /\ Len(c.failures) <= 3
    /\ c.pc = "await_model" => c.attempt = Len(c.failures) + 1
    /\ (c.pc = "done" /\ c.ret = OverloadedMessage) <=> Len(c.failures) = 3
    /\ \A i \in 1..Len(c.failures) : c.failures[i] \in {"HTTPStatusError", "LLM Error"}

RetryStep(c, d) ==
    /\ (c.pc = "await_model" /\ d # c) =>
          \/ /\ Len(c.failures) < 2                       \* a failure, retried
             /\ d.pc = "await_model"
             /\ Len(d.failures) = Len(c.failures) + 1
             /\ d.messages = c.messages
             /\ d.model_calls = c.model_calls
             /\ d.tool_invocations = c.tool_invocations
          \/ /\ Len(c.failures) = 2                       \* the third failure
             /\ Len(d.failures) = 3
             /\ d.pc = "done"
             /\ d.ret = OverloadedMessage
             /\ d.model_calls = c.model_calls
             /\ d.tool_invocations = c.tool_invocations
          \/ /\ d.failures = c.failures                   \* a success
             /\ d.llm_response \in LLMContents
             /\ \/ d.pc = "await_tool"
                \/ d.pc = "done" /\ d.ret = d.llm_response
    /\ c.pc = "done" => d \in {c, IdleCall}

ModelCallRetry ==
    /\ [](\A s \in Slots : RetryState(calls[s]))
    /\ [][\A s \in Slots : RetryStep(calls[s], calls'[s])]_vars

\* A success on the third attempt, after one failure of each kind, in a
\* later round.
ThirdAttemptSucceeds ==
    \E s \in Slots :
        /\ calls[s].pc = "await_tool"
        /\ calls[s].round_num = 1
        /\ calls[s].failures = <<"HTTPStatusError", "LLM Error">>

\* C7: stored history excludes tool rounds. Every stored entry is a user
\* query or a final model answer; no directive text of an intermediate round
\* and no TOOL_RESULT turn is stored.
OldQueries == {OldHistory[i].content : i \in {j \in 1..18 : j % 2 = 1}}
HistoryExcludesToolRounds ==
    \A u \in DOMAIN conversation_history :
        \A i \in 1..Len(conversation_history[u]) :
            LET e == conversation_history[u][i] IN
            /\ e.role \in {"user", "assistant"}
            /\ ~IsToolResultTurn(e)
            /\ e.role = "user" => e.content \in Queries \cup OldQueries
            /\ e.role = "assistant" => ~HasDirective(e.content)

AnswerAfterToolRounds ==
    \E s \in Slots :
        LET c == calls[s] IN
        /\ EndedWithAnswer(c)
        /\ c.round_num = 2
        /\ c.user_id = "u1"
        /\ Stored("u1") = <<Turn("user", c.query), Turn("assistant", FinalAnswer)>>

\* C8: failed queries leave history untouched. When a query ends with the
\* overloaded message or the round-budget message, the turns stored for its
\* user are the ones stored before the query started.
FailedQueryLeavesHistory ==
    \A s \in Slots :
        EndedFailed(calls[s]) => Stored(calls[s].user_id) = calls[s].turns0

FailedAfterToolRound ==
    \E s \in Slots :
        /\ calls[s].pc = "done"
        /\ calls[s].ret = OverloadedMessage
        /\ calls[s].round_num >= 1
        /\ Len(calls[s].turns0) = 20
        /\ Stored(calls[s].user_id) = calls[s].turns0

\* C9: history trimming. A stored history never has more than 20 entries;
\* when a completed query brings it beyond 20, exactly the 20 most recent
\* entries remain, in their order; and the stored history does not change
\* while a query is in a round.
HistoryTrimming ==
    /\ \A u \in DOMAIN conversation_history : Len(conversation_history[u]) <= 20
    /\ \A s \in Slots :
          LET c == calls[s]
              full == c.turns0 \o <<Turn("user", c.query), Turn("assistant", c.ret)>>
              h == Stored(c.user_id)
          IN
          /\ InFlight(c) => h = c.turns0
          /\ EndedWithAnswer(c) =>
                IF Len(full) > 20
                THEN /\ Len(h) = 20
                     /\ \A i \in 1..20 : h[i] = full[Len(full) - 20 + i]
                ELSE h = full

TrimmedSeen ==
    \E s \in Slots :
        LET c == calls[s] IN
        /\ EndedWithAnswer(c)
        /\ Len(c.turns0) = 20
        /\ Len(Stored(c.user_id)) = 20
        /\ Stored(c.user_id)[1] = OldHistory[3]
        /\ Stored(c.user_id)[20] = Turn("assistant", c.ret)

\* C10: final state. A model response without a directive ends the query in
\* that round: no tool is invoked, the response text is returned as it is,
\* and the user's history gains (user, query) then (assistant, answer),
\* after which it is trimmed.
FinalState ==
    [][\A s \in Slots :
        LET c == calls[s]
            d == calls'[s]
            succeeded == /\ c.pc = "await_model"
                         /\ \/ d.pc = "await_tool"
                            \/ d.pc = "done" /\ d.ret # OverloadedMessage
            before == Stored(c.user_id)
            after == conversation_history'[c.user_id]
            gained == before \o <<Turn("user", c.query), Turn("assistant", d.ret)>>
        IN
        /\ (succeeded /\ ~HasDirective(d.llm_response)) => d.pc = "done"
        /\ (succeeded /\ d.pc = "done") =>
              /\ ~HasDirective(d.llm_response)
              /\ d.ret = d.llm_response
              /\ d.round_num = c.round_num
              /\ d.tool_invocations = c.tool_invocations
              /\ d.model_calls = c.model_calls
              /\ after = Trim(gained)
              /\ Len(gained) = Len(before) + 2]_vars

FirstRoundAnswer ==
    \E s \in Slots :
        LET c == calls[s] IN
        /\ EndedWithAnswer(c)
        /\ c.round_num = 0
        /\ c.tool_invocations = 0
        /\ c.ret = FinalAnswer
        /\ Stored("u1") = <<Turn("user", c.query), Turn("assistant", FinalAnswer)>>

\* The updates of user v that can still arrive can be taken now.
CanStart(v) == ENABLED (\E t \in Slots, q \in Queries : StartQuery(t, v, q))

SameUserNeverOverlaps ==
    \A s, t \in Slots :
        (s # t /\ InFlight(calls[s]) /\ InFlight(calls[t]))
            => calls[s].user_id # calls[t].user_id

\* C19 as stated: two queries of the same user are never in flight together,
\* while a query of another user can be taken up when one is in flight.
PerUserSerialization ==
    /\ SameUserNeverOverlaps
    /\ \A s \in Slots, v \in Users :
          (InFlight(calls[s]) /\ calls[s].user_id # v /\ nq < MaxQueries) => CanStart(v)

\* C19 amended: at most one query is in flight at any time, whoever sent it.
\* A query starts, and makes its first model call, only when every earlier
\* query has returned and its answer has been handed over; so neither the
\* queries of one user nor those of distinct users are in flight together.
OneQueryAtATime ==
    /\ [](\A s, t \in Slots : (InFlight(calls[s]) /\ InFlight(calls[t])) => s = t)
    /\ [][nq' = nq + 1 =>
            /\ \A t \in Slots : calls[t].pc = "idle"
            /\ \E s \in Slots : /\ calls'[s].pc = "await_model"
                                 /\ calls'[s].model_calls = 1
                                 /\ \A t \in Slots \ {s} : calls'[t].pc = "idle"]_vars

\* Witness: the second query of a user is in flight after the first was
\* answered (its two turns are in the history the second one started from).
SecondQueryOfUserSeen ==
    /\ nq = 2
    /\ calls[1].pc = "await_tool"
    /\ calls[1].user_id = "u1"
    /\ Len(calls[1].turns0) = 2

(***************************************************************************)
(* Properties of tool invocation, checked under SpecTools                  *)
(***************************************************************************)

\* The step in which slot s leaves its tool call.
ToolCallEnds(s) == calls[s].pc = "await_tool" /\ calls'[s] # calls[s]
LastTurn(c) == c.messages[Len(c.messages)]
ResultHeader(c) == <<"TOOL_RESULT for ", c.tool_name, ":\n">>

\* The loop goes on after the tool call as it does after a successful one:
\* two turns are appended, the last is the user turn with the result, and
\* the query ends only when the round budget is used up.
ProceedsAsAfterSuccess(c, d) ==
    /\ Len(d.messages) = Len(c.messages) + 2
    /\ LastTurn(d).role = "user"
    /\ SubSeq(LastTurn(d).content, 1, 3) = ResultHeader(c)
    /\ d.round_num = c.round_num + 1
    /\ IF c.round_num + 1 < max_rounds
       THEN d.pc = "await_model"
       ELSE d.pc = "done" /\ d.ret = BudgetMessage

ResultBody(d) == SubSeq(LastTurn(d).content, 4, Len(LastTurn(d).content))

OnlyDiscoveredToolsInvoked ==
    \A s \in Slots :
        calls[s].pc = "await_tool" => calls[s].tool_name \in DiscoveredTools

(***************************************************************************)
(* Properties of the snapshot store, checked under SpecStore               *)
(***************************************************************************)

\* C12: when a snapshot A exists and load(key) runs while save(key, B) of
\* another process is in progress, load returns record A or record B, never
\* None, a partial record or a mix.
ConcurrentLoadSeesAOrB ==
    (snap_call.fn = "load" /\ snap_call.saving /\ HeldSnapshot(snap_call.before)) =>
        \/ snap_call.out = Returned(snap_call.before.json)
        \/ snap_call.out = Returned(SnapshotRecord(snap_call.writing, snap_call.at))

SaveReturned == save_call.pc = "idle" /\ save_call.key \in Keys /\ save_call.exc = ""

\* C14: once save(key, B) has returned, whatever the file held before (the
\* record of an earlier save(key, A) included), the file of the key is
\* exactly the record of B and load(key) returns it with data = B.
SaveReplaces ==
    SaveReturned =>
        /\ snapshots[save_call.key] = JsonFile(SnapshotRecord(save_call.data, now))
        /\ load(save_call.key).exc = ""
        /\ load(save_call.key).val.data = save_call.data

\* Witness: save(key, A) returned, then save(key, B) returned.
SecondSaveSeen ==
    /\ SaveReturned
    /\ save_call.prior = <<"rows:", "A">>
    /\ HeldSnapshot(save_call.before)
    /\ save_call.before.json.data = <<"rows:", "A">>
    /\ save_call.data = <<"rows:", "B">>

\* C15: load never raises: it returns the stored record, or None.
LoadNeverRaises ==
    snap_call.fn = "load" => snap_call.out.exc = ""

(***************************************************************************)
(* Properties of the snapshot age, checked under SpecAge                   *)
(***************************************************************************)
\* The longest time between a save and a call that the clock readings allow.
MaxElapsed == CHOOSE t \in AgeInstants : \A u \in AgeInstants : u <= t

\* Seconds from the saved_at of a record to the clock reading.
Elapsed(file, at) == at - FromIsoFormat(file.json.saved_at)

\* The label fits the elapsed time: it names the whole minutes below an
\* hour, the whole hours below a day, the whole days from then on.
LabelFits(label, seconds) ==
    \/ label = <<"just now">> /\ seconds < 60
    \/ \E m \in 1..59 :
          label = <<ToString(m), " min ago">> /\ 60 * m <= seconds /\ seconds < 60 * (m + 1)
    \/ \E H \in 1..23 :
          label = <<ToString(H), "h ago">> /\ 3600 * H <= seconds /\ seconds < 3600 * (H + 1)
    \/ \E D \in 1..(MaxElapsed \div 86400) :
          label = <<ToString(D), " days ago">> /\ 86400 * D <= seconds
                                              /\ seconds < 86400 * (D + 1)

NinetyMinuteBanner ==
    <<"Tally is offline. Showing cached data from ", "1", "h ago", ":\n">>

\* C16: age_str gives "just now" below one whole minute, "m min ago" below an
\* hour, "Hh ago" with the whole hours below a day and "D days ago" with the
\* whole days from then on, and "no cached data" when the key has no
\* snapshot; the stale answer over a snapshot saved 90 minutes ago begins
\* with the offline banner naming "1h ago" and ends with the cached body.
AgeLabels ==
    /\ snap_call.fn = "age_str" =>
          /\ snap_call.out.exc = ""
          /\ IF snap_call.file = NoFile
             THEN snap_call.out.val = <<"no cached data">>
             ELSE LabelFits(snap_call.out.val, Elapsed(snap_call.file, snap_call.at))
    /\ (GateCalled /\ FetchFailedIn(gate) /\ HeldSnapshot(gate.before)
           /\ Elapsed(gate.before, gate.at) = 5400) =>
          /\ gate.out.exc = ""
          /\ SubSeq(gate.out.val, 1, 4) = NinetyMinuteBanner
          /\ SubSeq(gate.out.val, Len(gate.out.val) - Len(gate.before.json.data) + 1,
                    Len(gate.out.val)) = gate.before.json.data

\* Witness: the gate answered from a snapshot 90 minutes old, for which
\* age_str answers "1h ago".
NinetyMinutesSeen ==
    /\ GateCalled /\ FetchFailedIn(gate) /\ HeldSnapshot(gate.before)
    /\ Elapsed(gate.before, gate.at) = 5400
    /\ gate.out.exc = ""
    /\ snap_call.fn = "age_str"
    /\ snap_call.file # NoFile
    /\ Elapsed(snap_call.file, snap_call.at) = 5400
    /\ snap_call.out = Returned(<<"1", "h ago">>)

(***************************************************************************)
(* Properties of the transport, checked under SpecTransport                *)
(***************************************************************************)
TallyCalled == tally_call # NoTallyCall
PostFailed == tally_call.outcome.exc # ""

IsErrorEnvelope(raw) ==
    /\ Len(raw) >= 4
    /\ raw[1] = "<ENVELOPE>"
    /\ raw[2] = "<ERROR>"
    /\ raw[Len(raw) - 1] = "</ERROR>"
    /\ raw[Len(raw)] = "</ENVELOPE>"

\* C18: _tally_request never raises; on a timeout, a connection failure and
\* any other exception (a non-success HTTP status included) it returns an
\* <ENVELOPE> payload with an <ERROR> element, and the gate treats that
\* payload as a failure: the backend is marked unreachable, the snapshot is
\* left as it was, and what the gate returns is the stale answer or the
\* no-cached-data message, never the payload formatted as live data.
TransportErrorsFallBack ==
    TallyCalled =>
        /\ tally_call.ret.exc = ""
        /\ gate.fetched = tally_call.ret
        /\ PostFailed =>
              /\ IsErrorEnvelope(tally_call.ret.val)
              /\ tally_is_alive = "False"
              /\ snapshots[gate.key] = gate.before
              /\ gate.out.exc = "" =>
                    \/ gate.out.val = NoCacheMessage
                    \/ /\ HeldSnapshot(gate.before)
                       /\ gate.out.val = StaleAnswerOf(gate.before, gate.at)

\* Witness: a non-success HTTP status answered from the cache.
HttpErrorFallbackSeen ==
    /\ tally_call.outcome = Raised("HTTPError")
    /\ tally_call.ret = Returned(ErrorPayload(<<"HTTPError">>))
    /\ HeldSnapshot(gate.before)
    /\ gate.out = Returned(StaleAnswerOf(gate.before, gate.at))

(***************************************************************************)
(* Properties of the voucher amount, checked under SpecVoucher             *)
(***************************************************************************)
VoucherResolved == pure_call.fn = "extract_voucher_amount" /\ pure_call.out # Pending

\* The amount text of block i is there and is a number text.
Parses(v, i) == v[i].amount # "" /\ PyFloat(v[i].amount).exc = ""
AbsAmount(v, i) == FAbs(PyFloat(v[i].amount).val)
\* The party-flagged blocks of a tag whose amount can be read.
PartyBlocks(v, tag) ==
    {i \in 1..Len(v) : v[i].tag = tag /\ v[i].party = "Yes" /\ Parses(v, i)}
InventoryBlocks(v) ==
    {i \in 1..Len(v) : v[i].tag = "INVENTORYENTRIES.LIST" /\ Parses(v, i)}
PositiveBlocks(v) ==
    {i \in 1..Len(v) : Parses(v, i) /\ FPositive(AbsAmount(v, i))}
First(S) == CHOOSE i \in S : \A j \in S : i <= j
RECURSIVE SumAbs(_, _)
SumAbs(v, S) ==
    IF S = {} THEN FNum(0)
    ELSE LET i == CHOOSE j \in S : TRUE IN FAdd(AbsAmount(v, i), SumAbs(v, S \ {i}))

\* C21: the resolved amount is the result of the first step that succeeds:
\* the amount of a party-flagged ALLLEDGERENTRIES.LIST block, the same for a
\* LEDGERENTRIES.LIST block, the sum of the absolute inventory amounts if
\* positive, the first strictly positive absolute AMOUNT of the voucher, zero.
FallbackOrder ==
    VoucherResolved =>
        LET v == pure_call.arg
            amount == pure_call.out.val
        IN  IF PartyBlocks(v, "ALLLEDGERENTRIES.LIST") # {}
            THEN amount = AbsAmount(v, First(PartyBlocks(v, "ALLLEDGERENTRIES.LIST")))
            ELSE IF PartyBlocks(v, "LEDGERENTRIES.LIST") # {}
            THEN amount = AbsAmount(v, First(PartyBlocks(v, "LEDGERENTRIES.LIST")))
            ELSE IF FPositive(SumAbs(v, InventoryBlocks(v)))
            THEN amount = SumAbs(v, InventoryBlocks(v))
            ELSE IF PositiveBlocks(v) # {}
            THEN amount = AbsAmount(v, First(PositiveBlocks(v)))
            ELSE amount = FNum(0)

\* Witness: a voucher with inventory entries and a party-flagged ledger entry
\* resolved to the party amount.
PartyBeatsInventorySeen ==
    /\ VoucherResolved
    /\ pure_call.arg = <<Entry("INVENTORYENTRIES.LIST", "No", "-50.00"),
                         Entry("ALLLEDGERENTRIES.LIST", "Yes", "-200.00")>>
    /\ pure_call.out = Returned(FNum(200))

\* C22: for every voucher the resolver returns a value >= 0 and never
\* raises; it returns zero when no step of the chain matched.
AmountTotalNonNegative ==
    VoucherResolved =>
        /\ pure_call.out.exc = ""
        /\ pure_call.out.val.kind = "num"
        /\ pure_call.out.val.n >= 0
        /\ (\A i \in 1..Len(pure_call.arg) : ~Parses(pure_call.arg, i))
              => pure_call.out.val = FNum(0)

(***************************************************************************)
(* Properties of the report parsers, checked under SpecParse               *)
(***************************************************************************)
Parsed == pure_call.fn \in {"parse_ledgers", "parse_display_report"} /\ pure_call.out # Pending

\* C23: a report parser given amount text that is not a number never raises:
\* it returns its records with the field empty or zero.
AmountParsingFailsSoft ==
    Parsed =>
        /\ pure_call.out.exc = ""
        /\ \A i \in 1..Len(pure_call.out.val) :
              LET row == pure_call.out.val[i]
              IN  /\ "balance" \in DOMAIN row => row.balance.kind = "num"
                  /\ "amount" \in DOMAIN row => row.amount # "abc"
                  /\ "debit" \in DOMAIN row => row.debit # "abc" /\ row.credit # "abc"

(***************************************************************************)
(* Properties of the sanitizer, checked under SpecClean                    *)
(***************************************************************************)
\* C24: sanitizing is idempotent: a second pass returns what the first pass
\* returned.
CleanIdempotent ==
    (pure_call.fn = "clean_xml" /\ pure_call.again # Pending)
        => pure_call.again = pure_call.out

\* The numbers the removal is stated for.
StatedIllegal == (0..8) \cup {11} \cup (14..31)

\* C25: a reference &#N; is removed exactly when N is in {0..8, 11, 14..31},
\* a raw character exactly when its code point is in that set, and the rest
\* of the text (references and characters 9, 10 and 13 included) is unchanged.
CleanRemovesExactlyIllegal ==
    (pure_call.fn = "clean_xml" /\ pure_call.out # Pending) =>
        \A n \in 0..MaxCode :
            /\ pure_call.arg = Between(Reference(n)) =>
                  pure_call.out.val = IF n \in StatedIllegal THEN Between(<<>>) ELSE pure_call.arg
            /\ pure_call.arg = Between(<<n>>) =>
                  pure_call.out.val = IF n \in StatedIllegal THEN Between(<<>>) ELSE pure_call.arg

(***************************************************************************)
(* Round ordering, checked under SpecLoop                                  *)
(***************************************************************************)
\* Position in messages of the new query's user turn.
QueryAt(c) == 2 + Len(c.turns0)
\* The call text and the result turn of earlier round k.
CallTextOf(c, k) == c.messages[QueryAt(c) + 2 * k - 1]
ResultTurnOf(c, k) == c.messages[QueryAt(c) + 2 * k]

MessagesInOrder(c) ==
    /\ Len(c.messages) = QueryAt(c) + 2 * c.round_num
    /\ c.messages[1] = Turn("system", SystemPrompt)
    /\ SubSeq(c.messages, 2, QueryAt(c) - 1) = c.turns0
    /\ c.messages[QueryAt(c)] = Turn("user", c.query)
    /\ \A k \in 1..c.round_num :
          /\ CallTextOf(c, k).role = "assistant"
          /\ HasDirective(CallTextOf(c, k).content)
          /\ ResultTurnOf(c, k).role = "user"
          /\ SubSeq(ResultTurnOf(c, k).content, 1, 3) =
                <<"TOOL_RESULT for ",
                  parse_tool_call(CallTextOf(c, k).content).tool_name, ":\n">>

\* A round ends only by its tool invocation ending, and the next model call
\* is made with the result of that invocation as the last message.
RoundsInSequence(c, d) ==
    /\ (InFlight(c) /\ InFlight(d)) => d.round_num \in {c.round_num, c.round_num + 1}
    /\ (InFlight(c) /\ d.round_num # c.round_num) =>
          /\ c.pc = "await_tool"
          /\ d.round_num = c.round_num + 1
          /\ d.messages[Len(d.messages) - 1] = Turn("assistant", c.llm_response)
          /\ d.messages[Len(d.messages)] =
                ToolResultTurn(c.tool_name, ToolResult(d.tool_outcome))
    /\ (InFlight(c) /\ d.round_num = c.round_num) => d.messages = c.messages

\* C26: rounds of one query are strictly sequential, and the messages sent to
\* the model in round n are the system prompt, the user's stored history as
\* of query start, the new query, then for each earlier round the assistant's
\* call text followed by its TOOL_RESULT user turn.
RoundOrdering ==
    /\ [](\A s \in Slots : InFlight(calls[s]) => MessagesInOrder(calls[s]))
    /\ [][\A s \in Slots : RoundsInSequence(calls[s], calls'[s])]_vars

\* Witness: the model is called in round 3 of a query of a user with stored
\* history.
ThirdRoundSeen ==
    \E s \in Slots :
        /\ calls[s].pc = "await_model"
        /\ calls[s].round_num = 2
        /\ calls[s].turns0 # <<>>

(***************************************************************************)
(* Directive parsing, checked under SpecDirective                          *)
(***************************************************************************)
\* The mapping an argument list states: each double-quoted argument's name to
\* its value, a later argument of the same name replacing an earlier one.
RECURSIVE StatedKwargs(_, _)
StatedKwargs(args, kwargs) ==
    IF args = <<>> THEN kwargs
    ELSE IF Head(args).quoted
         THEN StatedKwargs(Tail(args), (Head(args).name :> Head(args).value) @@ kwargs)
    ELSE StatedKwargs(Tail(args), kwargs)

\* C27: a text with the directive TOOL_CALL: name(a1="v1", ...), the values
\* being any strings without a double quote, parses to the name and exactly
\* the mapping of the double-quoted arguments; a text without directive
\* parses to 'no call'.
DirectiveRoundTrip ==
    (pure_call.fn = "parse_tool_call" /\ pure_call.out # Pending) =>
        pure_call.out.val =
            [tool_name |-> pure_call.arg.name,
             kwargs |-> StatedKwargs(pure_call.arg.args, NoKwargs)]

(***************************************************************************)
(* Termination, checked under SpecTerminate                                *)
(***************************************************************************)
\* Model attempts made so far by a call: three for each earlier round at most.
AttemptsAtMost(c) == (c.model_calls - 1) * stop_after_attempt + c.attempt

WithinBudget(c) ==
    /\ c.round_num <= max_rounds
    /\ c.model_calls <= max_rounds
    /\ c.pc # "idle" => AttemptsAtMost(c) <= max_rounds * stop_after_attempt
    /\ c.tool_invocations <= max_rounds

OneOfThreeOutcomes(c) ==
    \/ c.ret = OverloadedMessage
    \/ c.ret = BudgetMessage
    \/ c.ret = c.llm_response /\ ~HasDirective(c.llm_response)

\* C28: when every model attempt and every tool invocation ends, every query
\* terminates with the model's final answer, the overloaded message or the
\* round-budget message, after at most 5 rounds, 15 model attempts and 5 tool
\* invocations, and handle_query never raises to its caller.
QueryTermination ==
    /\ [](\A s \in Slots :
            /\ WithinBudget(calls[s])
            /\ calls[s].pc # "raised"
            /\ calls[s].pc = "done" => OneOfThreeOutcomes(calls[s]))
    /\ \A s \in Slots : InFlight(calls[s]) ~> calls[s].pc = "done"

(***************************************************************************)
(* What the store holds, checked under SpecGate                            *)
(***************************************************************************)
\* The texts format gives for payloads fetched without the error marker.
LiveTexts ==
    {format_fn(p).val : p \in {q \in Payloads : ~HasErrorMarker(q) /\ format_fn(q).exc = ""}}

StoredData(k) == snapshots[k].json.data
\* The text begins with the offline banner.
StartsWithBanner(text) == text # <<>> /\ text[1] = Banner(<<>>)[1]
HoldsData(k) == snapshots[k].kind = "json" /\ "data" \in snapshots[k].json.keys

\* The store changes only by a call whose fetch and format succeeded, to the
\* record of that call's formatted text saved at that call's time.
WrittenByLiveSuccess ==
    \A k \in Keys :
        snapshots'[k] # snapshots[k] =>
            /\ gate'.key = k
            /\ gate'.fetched.exc = ""
            /\ ~HasErrorMarker(gate'.fetched.val)
            /\ format_fn(gate'.fetched.val).exc = ""
            /\ snapshots'[k] =
                  JsonFile(SnapshotRecord(format_fn(gate'.fetched.val).val, now))
            /\ gate'.out = Returned(format_fn(gate'.fetched.val).val)

\* C29: the data stored for a key was produced by format over a payload
\* fetched without an error marker; a gate call that fails never writes the
\* store, so a stored snapshot never contains the offline banner or the
\* no-cached-data message and failures change neither data nor saved_at.
SnapshotsHoldOnlyLiveResults ==
    /\ [](\A k \in Keys : HoldsData(k) =>
            /\ StoredData(k) \in LiveTexts
            /\ StoredData(k) # NoCacheMessage
            /\ ~StartsWithBanner(StoredData(k)))
    /\ [][WrittenByLiveSuccess]_vars

\* Witness: a failed call answered with the banner over a snapshot that an
\* earlier call of this run had saved, the snapshot left as it was.
FailureAfterLiveSave ==
    /\ GateCalled
    /\ FetchFailedIn(gate)
    /\ HeldSnapshot(gate.before)
    /\ FromIsoFormat(gate.before.json.saved_at) > 0
    /\ gate.out = Returned(StaleAnswerOf(gate.before, gate.at))
    /\ snapshots[gate.key] = gate.before

(***************************************************************************)
(* Pair structure of the history, checked under SpecOverlap                *)
(***************************************************************************)
InPairs(h) ==
    /\ Len(h) % 2 = 0
    /\ \A i \in 1..Len(h) :
          h[i].role = IF i % 2 = 1 THEN "user" ELSE "assistant"

\* The pair a call stores when it ends with the model's answer.
CompletedPair(c, d) == <<Turn("user", c.query), Turn("assistant", d.ret)>>

\* The stored history changes only by /clear emptying it or by a query
\* completing, which puts its pair at the end and drops whole pairs from the
\* front.
HistoryStep(u) ==
    Stored(u)' # Stored(u) =>
        \/ Stored(u)' = <<>>
        \/ \E s \in Slots :
              /\ InFlight(calls[s])
              /\ calls[s].user_id = u
              /\ EndedWithAnswer(calls'[s])
              /\ LET full == Stored(u) \o CompletedPair(calls[s], calls'[s])
                 IN \E n \in 0..Len(Stored(u)) :
                       /\ n % 2 = 0
                       /\ Stored(u)' = SubSeq(full, n + 1, Len(full))

\* C30: after any sequence of completed queries and /clear commands, also
\* when handle_query calls of one user overlap, a user's stored history has
\* even length and consists of adjacent (user query, assistant answer) pairs
\* in completion order; trimming to 20 never splits a pair.
HistoryPairStructure ==
    /\ [](\A u \in DOMAIN conversation_history : InPairs(conversation_history[u]))
    /\ [][\A u \in Users : HistoryStep(u)]_vars

\* Witness: two queries of one user overlapped, the one started second
\* completed first, and the trimmed history ends with the two pairs in the
\* order of completion.
OverlappedPairsSeen ==
    /\ EndedWithAnswer(calls[1]) /\ EndedWithAnswer(calls[2])
    /\ calls[1].user_id = calls[2].user_id
    /\ calls[1].query # calls[2].query
    /\ LET h == Stored(calls[1].user_id) IN
          /\ Len(h) = HistoryCap
          /\ SubSeq(h, Len(h) - 3, Len(h)) =
                CompletedPair(calls[2], calls[2]) \o CompletedPair(calls[1], calls[1])

(***************************************************************************)
(* The banner of a stale answer, checked under SpecFallback                *)
(***************************************************************************)
\* The except branch has returned a text other than the no-cached-data
\* message.
StaleAnswerReturned ==
    /\ fb_call.pc = "returned"
    /\ fb_call.out.exc = ""
    /\ fb_call.out.val # NoCacheMessage

\* C31: in every stale answer the age in the banner is the age of the
\* snapshot record whose data follows the banner, also when the snapshot of
\* the key is saved or replaced while the gate is in its fallback path.
BannerAgeMatchesData ==
    StaleAnswerReturned =>
        /\ HeldSnapshot(fb_call.file)
        /\ fb_call.out.val = StaleAnswerOf(fb_call.file, fb_call.at)

(***************************************************************************)
(* Cache keys, checked under SpecKeys                                      *)
(***************************************************************************)
\* The last tool call returned the banner over a cached body.
StaleToolAnswer ==
    /\ pure_call.fn # ""
    /\ pure_call.out.exc = ""
    /\ StartsWithBanner(pure_call.out.val)

\* C32: whenever a tool call returns a stale answer, the cached body was
\* produced by a live call of the same tool with the same arguments (the
\* search term compared without case): no other tool and argument
\* combination has written under the cache key of the call.
StaleAnswerFromSameQuery ==
    StaleToolAnswer =>
        gate.before.json.data =
            format_fn(ToolPayload(ToolCall(pure_call.fn, pure_call.arg))).val

(***************************************************************************)
(* /clear and the queries around it, checked under SpecClear               *)
(***************************************************************************)
\* The step is the /clear handler of user u acting on the stored history.
ClearHandled(u) ==
    /\ calls' = calls
    /\ nq' = nq
    /\ u \in DOMAIN conversation_history'
    /\ u \notin DOMAIN conversation_history \/ conversation_history'[u] # conversation_history[u]

\* The step in which slot s takes up a query.
QueryBegins(s) == calls[s].pc = "idle" /\ calls'[s].pc = "await_model"

\* The step in which the query of slot s ends with the model's answer.
QueryCompletes(s) == InFlight(calls[s]) /\ EndedWithAnswer(calls'[s])

\* The prompt of a query holds the turns stored for its user when it is taken
\* up and nothing else of earlier queries.
PromptFromStored(s) ==
    QueryBegins(s) =>
        LET c == calls'[s] IN
        /\ c.turns0 = Stored(c.user_id)
        /\ c.messages = <<Turn("system", SystemPrompt)>> \o Stored(c.user_id)
                             \o <<Turn("user", c.query)>>

\* A completing query leaves behind the history it was taken up with and its
\* own pair: no /clear and no other query of the user came in between.
StoredFromStart(s) ==
    QueryCompletes(s) =>
        Stored(calls[s].user_id)' =
            Trim(calls[s].turns0 \o CompletedPair(calls[s], calls'[s]))

\* Once /clear has been handled the user's history is empty; later it and
\* the prompts hold turns of queries taken up after the /clear only.
ClearResets ==
    /\ \A u \in Users : ClearHandled(u) => conversation_history'[u] = <<>>
    /\ \A s \in Slots : PromptFromStored(s) /\ StoredFromStart(s)

\* A /clear of the user of a query in flight can be handled.
ClearHandledInFlight ==
    \A s \in Slots :
        InFlight(calls[s]) => ENABLED ClearCommand(calls[s].user_id)

====
